---- MODULE Spec2Model ----
(***************************************************************************)
(* Configuration and profile management engine of decky-lsfg-vk:           *)
(* the field schema, the TOML-subset codec, the launch-script codec, the   *)
(* profile store and the configuration service with its file I/O.          *)
(*                                                                         *)
(* Representation                                                          *)
(*   - a Python str is a TLA+ string; a text (file content) is the         *)
(*     sequence of lines that str.split('\n') yields for it, so            *)
(*     "\n".join(lines) is join_lines(lines), which re-splits every line   *)
(*     that carries an embedded newline;                                   *)
(*   - a Python float is a decimal number with one fractional digit,       *)
(*     held as the integer number of tenths (0.8 is 8, 1.2 is 12);         *)
(*   - a Python dict is a function whose DOMAIN is the key set; the        *)
(*     insertion-ordered profiles dict is [order, cfg];                    *)
(*   - None and "" are both falsy wherever the code tests them, and the    *)
(*     model holds "" for a None string.                                   *)
(***************************************************************************)
EXTENDS Integers, Sequences, FiniteSets, TLC

\* Body(e), with e evaluated once, before Body uses it
With(e, Body(_)) == CHOOSE y \in {Body(x) : x \in {e}} : TRUE

(***************************************************************************)
(* Python str primitives                                                   *)
(***************************************************************************)
Whitespace == {" ", "\t", "\n", "\r"}

CharAt(s, i) == SubSeq(s, i, i)

RECURSIVE FirstNonSpace(_, _)
FirstNonSpace(s, i) ==
    IF i <= Len(s) /\ CharAt(s, i) \in Whitespace THEN FirstNonSpace(s, i + 1) ELSE i

RECURSIVE LastNonSpace(_, _)
LastNonSpace(s, j) ==
    IF j >= 1 /\ CharAt(s, j) \in Whitespace THEN LastNonSpace(s, j - 1) ELSE j

\* str.strip()
strip(s) ==
    With(FirstNonSpace(s, 1), LAMBDA i :
    With(LastNonSpace(s, Len(s)), LAMBDA j :
        IF i > j THEN "" ELSE SubSeq(s, i, j)))

\* str.startswith / str.endswith
startswith(s, p) == Len(s) >= Len(p) /\ SubSeq(s, 1, Len(p)) = p
endswith(s, p) == Len(s) >= Len(p) /\ SubSeq(s, Len(s) - Len(p) + 1, Len(s)) = p

\* str.find for a single character, 1-based, 0 when absent
find(s, c) ==
    With({i \in 1..Len(s) : CharAt(s, i) = c}, LAMBDA hits :
        IF hits = {} THEN 0 ELSE CHOOSE i \in hits : \A j \in hits : i <= j)

\* str.split(c, 1) of a string known to contain c
split1(s, c) ==
    With(find(s, c), LAMBDA i :
        [key |-> SubSeq(s, 1, i - 1), value |-> SubSeq(s, i + 1, Len(s))])

UpperChars == "ABCDEFGHIJKLMNOPQRSTUVWXYZ"
LowerChars == "abcdefghijklmnopqrstuvwxyz"

\* the lower-case letter of every upper-case letter
ToLower ==
    [c \in {CharAt(UpperChars, i) : i \in 1..Len(UpperChars)} |->
        CharAt(LowerChars, find(UpperChars, c))]

lower_char(c) == IF c \in DOMAIN ToLower THEN ToLower[c] ELSE c

\* str.lower()
RECURSIVE lower(_)
lower(s) == IF s = "" THEN "" ELSE lower_char(Head(s)) \o lower(Tail(s))

Digits == "0123456789"

DigitVal(c) == find(Digits, c) - 1

IsDigit(c) == Len(c) = 1 /\ find(Digits, c) > 0

\* str(n) for a non-negative int
RECURSIVE str_nat(_)
str_nat(n) ==
    IF n < 10 THEN CharAt(Digits, n + 1)
    ELSE str_nat(n \div 10) \o CharAt(Digits, (n % 10) + 1)

\* str(n) / f"{n}" for an int
str_int(n) == IF n < 0 THEN "-" \o str_nat(0 - n) ELSE str_nat(n)

AllDigits(s) == s # "" /\ \A i \in 1..Len(s) : IsDigit(CharAt(s, i))

RECURSIVE NatOf(_, _, _)
NatOf(s, i, acc) ==
    IF i > Len(s) THEN acc ELSE NatOf(s, i + 1, acc * 10 + DigitVal(CharAt(s, i)))

\* The sign and the digits of a numeral: int() and float() strip surrounding
\* whitespace and accept one leading "+" or "-".
Signed(s) ==
    With(strip(s), LAMBDA t :
        IF startswith(t, "-") THEN [neg |-> TRUE, body |-> Tail(t)]
        ELSE IF startswith(t, "+") THEN [neg |-> FALSE, body |-> Tail(t)]
        ELSE [neg |-> FALSE, body |-> t])

\* int(s): ok = FALSE is the ValueError
int_of(s) ==
    With(Signed(s), LAMBDA sg :
        IF AllDigits(sg.body)
        THEN [ok |-> TRUE,
              v |-> IF sg.neg THEN 0 - NatOf(sg.body, 1, 0) ELSE NatOf(sg.body, 1, 0)]
        ELSE [ok |-> FALSE, v |-> 0])

\* f"{x}" for a float (repr): integer part, point, one fractional digit
str_float(t) ==
    LET a == IF t < 0 THEN 0 - t ELSE t
    IN  (IF t < 0 THEN "-" ELSE "") \o str_nat(a \div 10) \o "." \o str_nat(a % 10)

\* the value of the numeral of sign sg, integer digits ip and fraction digit fp
float_value(sg, ip, fp) ==
    IF AllDigits(ip) /\ (fp = "" \/ (Len(fp) = 1 /\ IsDigit(fp)))
    THEN With(NatOf(ip, 1, 0) * 10 + (IF fp = "" THEN 0 ELSE DigitVal(fp)), LAMBDA mag :
            [ok |-> TRUE, v |-> IF sg.neg THEN 0 - mag ELSE mag])
    ELSE [ok |-> FALSE, v |-> 0]

\* a float() that reads integer numerals only
float_of_integral(s) ==
    With(int_of(s), LAMBDA i : [ok |-> i.ok, v |-> i.v * 10])

\* float(s) for the numerals "d", "d." and "d.f"; ok = FALSE is the ValueError
float_of(s) ==
    With(Signed(s), LAMBDA sg :
    With(find(sg.body, "."), LAMBDA p :
        IF p = 0 THEN float_value(sg, sg.body, "")
        ELSE float_value(sg, SubSeq(sg.body, 1, p - 1),
                         SubSeq(sg.body, p + 1, Len(sg.body)))))

\* s.split('\n')
RECURSIVE split_nl(_)
split_nl(s) ==
    With(find(s, "\n"), LAMBDA i :
        IF i = 0 THEN <<s>>
        ELSE <<SubSeq(s, 1, i - 1)>> \o split_nl(SubSeq(s, i + 1, Len(s))))

\* "\n".join(lines), as the text it denotes (lines lo..hi)
RECURSIVE join_range(_, _, _)
join_range(lines, lo, hi) ==
    IF lo > hi THEN <<>>
    ELSE IF lo = hi THEN split_nl(lines[lo])
    ELSE With((lo + hi) \div 2, LAMBDA mid :
            join_range(lines, lo, mid) \o join_range(lines, mid + 1, hi))

join_lines(lines) ==
    With(lines, LAMBDA ls : IF ls = <<>> THEN <<"">> ELSE join_range(ls, 1, Len(ls)))

(***************************************************************************)
(* Schema (shared_config.py, config_schema.py)                             *)
(***************************************************************************)
CONFIG_SCHEMA_DEF == <<
    [name |-> "dll", fieldType |-> "string",
     default |-> "/games/Lossless Scaling/Lossless.dll",
     description |-> "specify where Lossless.dll is stored", location |-> "toml"],
    [name |-> "multiplier", fieldType |-> "integer", default |-> 1,
     description |-> "change the fps multiplier", location |-> "toml"],
    [name |-> "flow_scale", fieldType |-> "float", default |-> 8,
     description |-> "change the flow scale", location |-> "toml"],
    [name |-> "performance_mode", fieldType |-> "boolean", default |-> TRUE,
     description |-> "use a lighter model for FG (recommended for most games)",
     location |-> "toml"],
    [name |-> "hdr_mode", fieldType |-> "boolean", default |-> FALSE,
     description |-> "enable HDR mode (only for games that support HDR)",
     location |-> "toml"],
    [name |-> "experimental_present_mode", fieldType |-> "string", default |-> "fifo",
     description |-> "override Vulkan present mode (may cause crashes)",
     location |-> "toml"],
    [name |-> "dxvk_frame_rate", fieldType |-> "integer", default |-> 0,
     description |-> "base framerate cap for DirectX games before frame multiplier",
     location |-> "script"],
    [name |-> "enable_wow64", fieldType |-> "boolean", default |-> FALSE,
     description |-> "enable PROTON_USE_WOW64=1 for 32-bit games (use with ProtonGE to fix crashing)",
     location |-> "script"],
    [name |-> "disable_steamdeck_mode", fieldType |-> "boolean", default |-> FALSE,
     description |-> "disable Steam Deck mode (unlocks hidden settings in some games)",
     location |-> "script"],
    [name |-> "mangohud_workaround", fieldType |-> "boolean", default |-> FALSE,
     description |-> "Enables a transparent mangohud overlay, sometimes fixes issues with 2X multiplier in game mode",
     location |-> "script"],
    [name |-> "disable_vkbasalt", fieldType |-> "boolean", default |-> FALSE,
     description |-> "Disables vkBasalt layer which can conflict with LSFG (Reshade, some Decky plugins)",
     location |-> "script"],
    [name |-> "force_enable_vkbasalt", fieldType |-> "boolean", default |-> FALSE,
     description |-> "Force vkBasalt to engage to fix framepacing issues in gamemode",
     location |-> "script"],
    [name |-> "gamescope_frame_pacing", fieldType |-> "boolean", default |-> FALSE,
     description |-> "Enable gamescope frame pacing workaround for timing issues",
     location |-> "script"],
    [name |-> "frame_pacing_target_ms", fieldType |-> "integer", default |-> 25,
     description |-> "Target frame time in milliseconds for frame pacing (25ms = 40fps)",
     location |-> "script"] >>

FieldIndex == 1..Len(CONFIG_SCHEMA_DEF)

\* shared_config.get_field_names, as a set
FieldNames == {CONFIG_SCHEMA_DEF[i].name : i \in FieldIndex}

FieldDef(name) == CONFIG_SCHEMA_DEF[CHOOSE i \in FieldIndex : CONFIG_SCHEMA_DEF[i].name = name]

\* CONFIG_SCHEMA: the shared schema with the dll default overridden to ""
CONFIG_SCHEMA(name) ==
    IF name = "dll" THEN [FieldDef(name) EXCEPT !.default = ""] ELSE FieldDef(name)

\* SCRIPT_ONLY_FIELDS: the fields whose location is "script"
SCRIPT_ONLY_FIELDS == {f \in FieldNames : FieldDef(f).location = "script"}

DEFAULT_PROFILE_NAME == "decky-lsfg-vk"

GLOBAL_SECTION_FIELDS == {"dll", "no_fp16"}

\* ConfigurationManager.get_defaults: every field of the shared schema at its default
get_defaults == [f \in FieldNames |-> FieldDef(f).default]

(***************************************************************************)
(* Python dict helpers                                                     *)
(***************************************************************************)
\* d[k] = v
dict_set(d, k, v) == (k :> v) @@ d

\* del d[k]
dict_del(d, k) == [x \in (DOMAIN d) \ {k} |-> d[x]]

\* d.get(k, default)
dict_get(d, k, default) == IF k \in DOMAIN d THEN d[k] ELSE default

EmptyDict == [x \in {} |-> FALSE]

\* the insertion-ordered profiles dict
NoProfiles == [order |-> <<>>, cfg |-> EmptyDict]

HasProfile(profiles, name) == name \in DOMAIN profiles.cfg

\* profiles[name] = config: an existing key keeps its position, a new one is appended
profiles_set(profiles, name, config) ==
    [order |-> IF HasProfile(profiles, name) THEN profiles.order
               ELSE Append(profiles.order, name),
     cfg |-> dict_set(profiles.cfg, name, config)]

\* a del that removes nothing
profiles_del_nothing(profiles, name) == profiles

\* del profiles[name]
profiles_del(profiles, name) ==
    [order |-> SelectSeq(profiles.order, LAMBDA n : n # name),
     cfg |-> dict_del(profiles.cfg, name)]

\* ProfileData(current_profile=..., profiles=..., global_config=...)
ProfileData(current, profiles, global) ==
    [current_profile |-> current, profiles |-> profiles, global_config |-> global]

(***************************************************************************)
(* Validator (config_schema.py 153-173).  The mapping a caller hands in    *)
(* holds Python values of any type: a value is the record of its type and  *)
(* its content (s for a str, n for an int and for the tenths of a float,   *)
(* b for a bool).                                                          *)
(***************************************************************************)
PyStr(x) == [kind |-> "str", s |-> x, n |-> 0, b |-> FALSE]
PyInt(x) == [kind |-> "int", s |-> "", n |-> x, b |-> FALSE]
PyFloat(x) == [kind |-> "float", s |-> "", n |-> x, b |-> FALSE]
PyBool(x) == [kind |-> "bool", s |-> "", n |-> 0, b |-> x]
PyNone == [kind |-> "none", s |-> "", n |-> 0, b |-> FALSE]

\* the conversion returned v / raised the exception named
Converted(v) == [ok |-> TRUE, v |-> v, raised |-> ""]
ConversionRaised(exception) == [ok |-> FALSE, v |-> 0, raised |-> exception]

\* bool(value): never raises
py_bool(value) ==
    IF value.kind = "str" THEN value.s # ""
    ELSE IF value.kind \in {"int", "float"} THEN value.n # 0
    ELSE IF value.kind = "bool" THEN value.b
    ELSE FALSE

\* int(value): a float is truncated towards zero, a str that is no integer
\* numeral raises ValueError, None raises TypeError
py_int(value) ==
    IF value.kind = "str"
    THEN With(int_of(value.s), LAMBDA i :
            IF i.ok THEN Converted(i.v) ELSE ConversionRaised("ValueError"))
    ELSE IF value.kind = "int" THEN Converted(value.n)
    ELSE IF value.kind = "float"
    THEN Converted(IF value.n < 0 THEN 0 - ((0 - value.n) \div 10) ELSE value.n \div 10)
    ELSE IF value.kind = "bool" THEN Converted(IF value.b THEN 1 ELSE 0)
    ELSE ConversionRaised("TypeError")

\* float(value), in tenths
py_float(value) ==
    IF value.kind = "str"
    THEN With(float_of(value.s), LAMBDA x :
            IF x.ok THEN Converted(x.v) ELSE ConversionRaised("ValueError"))
    ELSE IF value.kind = "int" THEN Converted(value.n * 10)
    ELSE IF value.kind = "float" THEN Converted(value.n)
    ELSE IF value.kind = "bool" THEN Converted(IF value.b THEN 10 ELSE 0)
    ELSE ConversionRaised("TypeError")

\* str(value): never raises
py_str(value) ==
    IF value.kind = "str" THEN value.s
    ELSE IF value.kind = "int" THEN str_int(value.n)
    ELSE IF value.kind = "float" THEN str_float(value.n)
    ELSE IF value.kind = "bool" THEN (IF value.b THEN "True" ELSE "False")
    ELSE "None"

\* config_schema.py 159-171: one field of validate_config.  config.get
\* gives the field's default, which has the field's type, for a missing key.
validate_field(config, field_name) ==
    With(CONFIG_SCHEMA(field_name), LAMBDA field_def :
        IF field_name \notin DOMAIN config THEN Converted(field_def.default)
        ELSE IF field_def.fieldType = "boolean" THEN Converted(py_bool(config[field_name]))
        ELSE IF field_def.fieldType = "integer" THEN py_int(config[field_name])
        ELSE IF field_def.fieldType = "float" THEN py_float(config[field_name])
        ELSE Converted(py_str(config[field_name])))

\* ConfigurationManager.validate_config: the loop goes through the schema in
\* its order, and the first conversion that raises ends the call
validate_config(config) ==
    With([f \in FieldNames |-> validate_field(config, f)], LAMBDA fields :
    With({i \in FieldIndex : ~fields[CONFIG_SCHEMA_DEF[i].name].ok}, LAMBDA failing :
        IF failing = {}
        THEN [ok |-> TRUE, config |-> [f \in FieldNames |-> fields[f].v], raised |-> ""]
        ELSE [ok |-> FALSE, config |-> EmptyDict,
              raised |-> fields[CONFIG_SCHEMA_DEF[
                            CHOOSE i \in failing : \A j \in failing : i <= j].name].raised]))

(***************************************************************************)
(* TomlCodec: generate                                                     *)
(***************************************************************************)
\* str(value).lower() of a bool
bool_lower(b) == IF b THEN "true" ELSE "false"

\* config_schema.py 226-244: the lines of one field of a [[game]] block
toml_value_line(field_name, fieldType, value) ==
    IF fieldType = "boolean" THEN <<field_name \o " = " \o bool_lower(value)>>
    ELSE IF fieldType = "string"
         THEN IF value # "" THEN <<field_name \o " = \"" \o value \o "\"">> ELSE <<>>
    ELSE IF fieldType = "integer" THEN <<field_name \o " = " \o str_int(value)>>
    ELSE <<field_name \o " = " \o str_float(value)>>

toml_field_lines(field_name, config) ==
    IF field_name \in GLOBAL_SECTION_FIELDS THEN <<>>
    ELSE With(CONFIG_SCHEMA(field_name), LAMBDA fd :
            <<"# " \o fd.description>>
            \o toml_value_line(field_name, fd.fieldType, config[field_name])
            \o <<"">>)

RECURSIVE toml_fields_from(_, _)
toml_fields_from(i, config) ==
    IF i > Len(CONFIG_SCHEMA_DEF) THEN <<>>
    ELSE toml_field_lines(CONFIG_SCHEMA_DEF[i].name, config) \o toml_fields_from(i + 1, config)

\* config_schema.py 216-244: one [[game]] block
toml_game_lines(profile_name, config) ==
    <<"[[game]]",
      IF profile_name = DEFAULT_PROFILE_NAME
      THEN "# Plugin-managed game entry (default profile)"
      ELSE "# Profile: " \o profile_name,
      "exe = \"" \o profile_name \o "\"",
      "">> \o toml_fields_from(1, config)

RECURSIVE toml_games_from(_, _)
toml_games_from(i, profiles) ==
    IF i > Len(profiles.order) THEN <<>>
    ELSE toml_game_lines(profiles.order[i], profiles.cfg[profiles.order[i]])
         \o toml_games_from(i + 1, profiles)

\* config_schema.py 192-213: the version line and the [global] section
toml_global_lines(current_profile, dll_path, no_fp16) ==
    <<"version = 1", "", "[global]", "# Currently selected profile",
      "current_profile = \"" \o current_profile \o "\"", "">>
    \o (IF dll_path # ""
        THEN <<"# specify where Lossless.dll is stored",
               "dll = \"" \o dll_path \o "\"">>
        ELSE <<>>)
    \o <<"# force-disable fp16 (use on older nvidia cards)",
         "no_fp16 = " \o bool_lower(no_fp16), "">>

\* ConfigurationManager.generate_toml_content_multi_profile
generate_toml_content_multi_profile(profile_data) ==
    With(profile_data, LAMBDA pd :
        join_lines(
            toml_global_lines(pd.current_profile,
                              dict_get(pd.global_config, "dll", ""),
                              dict_get(pd.global_config, "no_fp16", FALSE))
            \o toml_games_from(1, pd.profiles)))

(***************************************************************************)
(* TomlCodec: parse                                                        *)
(***************************************************************************)
\* value.lower() in ('true', '1', 'yes', 'on')
truthy(value) == lower(value) \in {"true", "1", "yes", "on"}

\* config_schema.py 329-333: remove one pair of surrounding quotes
unquote(value) ==
    IF startswith(value, "\"") /\ endswith(value, "\"") THEN SubSeq(value, 2, Len(value) - 1)
    ELSE IF startswith(value, "'") /\ endswith(value, "'") THEN SubSeq(value, 2, Len(value) - 1)
    ELSE value

\* a block stored as it was buffered, without the defaults
validated_config_as_buffered(current_game_config) == current_game_config

\* config_schema.py 291-306 / 367-382: the stored config is the defaults with
\* the buffered keys laid over them.  The buffered values already have the
\* field's type (lines 353-360), so the isinstance-guarded conversions of
\* lines 296-303 return them unchanged.
validated_config(current_game_config) ==
    [f \in FieldNames |->
        IF f \in DOMAIN current_game_config THEN current_game_config[f]
        ELSE get_defaults[f]]

\* config_schema.py 289-308 / 366-383: store the pending [[game]] block.  The
\* buffer is cleared only when a block is stored (line 308 is inside the if).
flush_game(st) ==
    IF st.in_game_section /\ st.current_game_exe # ""
    THEN [st EXCEPT
            !.profiles = profiles_set(@, st.current_game_exe,
                                      validated_config(st.current_game_config)),
            !.current_game_config = EmptyDict]
    ELSE st

\* config_schema.py 287-321: a section header
parse_header(st, line) ==
    With(flush_game(st), LAMBDA f :
        IF line = "[global]"
        THEN [f EXCEPT !.in_global_section = TRUE, !.in_game_section = FALSE]
        ELSE IF line = "[[game]]"
        THEN [f EXCEPT !.in_global_section = FALSE, !.in_game_section = TRUE,
                       !.current_game_exe = ""]
        ELSE [f EXCEPT !.in_global_section = FALSE, !.in_game_section = FALSE])

\* st with the converted value buffered, or st unchanged after a ValueError
buffer_converted(st, key, converted) ==
    IF converted.ok THEN [st EXCEPT !.current_game_config = dict_set(@, key, converted.v)]
    ELSE st

\* config_schema.py 350-363: buffer one schema field of a [[game]] block
parse_game_field(st, key, value) ==
    With(CONFIG_SCHEMA(key).fieldType, LAMBDA ft :
        IF ft = "boolean"
        THEN [st EXCEPT !.current_game_config = dict_set(@, key, truthy(value))]
        ELSE IF ft = "integer"
        THEN With(int_of(value), LAMBDA i : buffer_converted(st, key, i))
        ELSE IF ft = "float"
        THEN With(float_of(value), LAMBDA x : buffer_converted(st, key, x))
        ELSE [st EXCEPT !.current_game_config = dict_set(@, key, value)])

\* config_schema.py 335-363: the effect of key = value in the section at hand
parse_assignment(st, key, value) ==
    IF st.in_global_section
    THEN IF key = "current_profile" THEN [st EXCEPT !.current_profile = value]
         ELSE IF key = "dll" THEN [st EXCEPT !.global_config = dict_set(@, "dll", value)]
         ELSE IF key = "no_fp16"
         THEN [st EXCEPT !.global_config = dict_set(@, "no_fp16", truthy(value))]
         ELSE st
    ELSE IF st.in_game_section
    THEN IF key = "exe" THEN [st EXCEPT !.current_game_exe = value]
         ELSE IF key \in FieldNames THEN parse_game_field(st, key, value)
         ELSE st
    ELSE st

\* config_schema.py 324-363: a key = value line
parse_key_value(st, line) ==
    With(split1(line, "="), LAMBDA kv :
    With(strip(kv.key), LAMBDA key :
    With(strip(kv.value), LAMBDA stripped :
    With(unquote(stripped), LAMBDA value :
        parse_assignment(st, key, value)))))

\* config_schema.py 279-363: the body of the line loop
parse_line(st, raw) ==
    With(strip(raw), LAMBDA line :
        IF line = "" \/ startswith(line, "#") THEN st
        ELSE IF startswith(line, "[") /\ endswith(line, "]") THEN parse_header(st, line)
        ELSE IF find(line, "=") > 0 THEN parse_key_value(st, line)
        ELSE st)

\* the for loop of line 279 over lines lo..hi; the state after the first half
\* is computed before the second half is scanned
RECURSIVE parse_lines(_, _, _, _)
parse_lines(st, lines, lo, hi) ==
    IF lo > hi THEN st
    ELSE IF lo = hi THEN parse_line(st, lines[lo])
    ELSE With((lo + hi) \div 2, LAMBDA mid :
         With(parse_lines(st, lines, lo, mid), LAMBDA left :
            parse_lines(left, lines, mid + 1, hi)))

\* config_schema.py 267-277: the scanner's initial state
ParseInit ==
    [in_global_section |-> FALSE, in_game_section |-> FALSE,
     current_game_exe |-> "", current_game_config |-> EmptyDict,
     profiles |-> NoProfiles, global_config |-> EmptyDict,
     current_profile |-> DEFAULT_PROFILE_NAME]

\* config_schema.py 385-393: make the result name an existing current profile
ensure_current(profiles, current_profile) ==
    With(IF profiles.order = <<>>
         THEN profiles_set(profiles, DEFAULT_PROFILE_NAME, get_defaults)
         ELSE profiles, LAMBDA p1 :
        IF HasProfile(p1, current_profile) THEN [profiles |-> p1, current |-> current_profile]
        ELSE [profiles |-> IF HasProfile(p1, DEFAULT_PROFILE_NAME) THEN p1
                           ELSE profiles_set(p1, DEFAULT_PROFILE_NAME, get_defaults),
              current |-> DEFAULT_PROFILE_NAME])

\* ConfigurationManager.parse_toml_content_multi_profile.  No step of the scan
\* raises (the conversions catch their ValueError), so the except branch of
\* lines 401-407 is never taken.
parse_toml_content_multi_profile(content) ==
    With(content, LAMBDA lines :
    With(parse_lines(ParseInit, lines, 1, Len(lines)), LAMBDA scanned :
    With(flush_game(scanned), LAMBDA st :
    With(ensure_current(st.profiles, st.current_profile), LAMBDA e :
        ProfileData(e.current, e.profiles, st.global_config)))))

\* the config of the current profile, the defaults when it is missing
current_config_of(pd) ==
    IF HasProfile(pd.profiles, pd.current_profile)
    THEN pd.profiles.cfg[pd.current_profile]
    ELSE get_defaults

\* a merge in which a field of the profile wins over the global one
merge_global_fields_profile_first(config, global_config) ==
    config @@ global_config

\* config_schema.py 257-260: the global fields that global_config holds are
\* laid over the profile's config
merge_global_fields(config, global_config) ==
    With(GLOBAL_SECTION_FIELDS \cap DOMAIN global_config, LAMBDA present :
        [f \in (DOMAIN config) \cup present |->
            IF f \in present THEN global_config[f] ELSE config[f]])

\* ConfigurationManager.parse_toml_content: the current profile with the
\* parsed global fields laid over it
parse_toml_content(content) ==
    With(parse_toml_content_multi_profile(content), LAMBDA pd :
        merge_global_fields(current_config_of(pd), pd.global_config))

(***************************************************************************)
(* ScriptCodec (scripts/generate_python_boilerplate.py emits this logic    *)
(* into config_schema_generated.py, once per script-location field)        *)
(***************************************************************************)
\* the upper-case letter of every lower-case letter
ToUpper ==
    [c \in {CharAt(LowerChars, i) : i \in 1..Len(LowerChars)} |->
        CharAt(UpperChars, find(LowerChars, c))]

upper_char(c) == IF c \in DOMAIN ToUpper THEN ToUpper[c] ELSE c

\* str.upper()
RECURSIVE upper(_)
upper(s) == IF s = "" THEN "" ELSE upper_char(Head(s)) \o upper(Tail(s))

\* get_env_var_name
get_env_var_name(field_name) ==
    IF field_name = "dxvk_frame_rate" THEN "DXVK_FRAME_RATE"
    ELSE IF field_name = "enable_wow64" THEN "PROTON_USE_WOW64"
    ELSE IF field_name = "disable_steamdeck_mode" THEN "SteamDeck"
    ELSE IF field_name = "mangohud_workaround" THEN "MANGOHUD"
    ELSE IF field_name = "disable_vkbasalt" THEN "DISABLE_VKBASALT"
    ELSE IF field_name = "force_enable_vkbasalt" THEN "ENABLE_VKBASALT"
    ELSE IF field_name = "enable_wsi" THEN "ENABLE_GAMESCOPE_WSI"
    ELSE upper(field_name)

\* a generator that treats dxvk_frame_rate like every other integer field
int_exported_any_nondefault(field_name, value) ==
    value # FieldDef(field_name).default

\* generate_script_generation, lines 163-171: when an integer field is exported
int_exported(field_name, value) ==
    IF field_name = "dxvk_frame_rate" THEN value > 0
    ELSE value # FieldDef(field_name).default

\* "export VAR=text" when exported, no line otherwise
export_line(exported, env_var, text) ==
    IF exported THEN <<"export " \o env_var \o "=" \o text>> ELSE <<>>

\* generate_script_generation, lines 145-175: the export line of one field
script_field_export(field_name, fd, env_var, config) ==
    IF fd.fieldType = "boolean"
    THEN IF field_name = "disable_steamdeck_mode"
         THEN export_line(dict_get(config, field_name, FALSE), env_var, "0")
         ELSE IF field_name = "enable_wsi"
         THEN export_line(~dict_get(config, field_name, FALSE), env_var, "0")
         ELSE export_line(dict_get(config, field_name, FALSE), env_var, "1")
    ELSE IF fd.fieldType = "integer"
    THEN With(dict_get(config, field_name, fd.default), LAMBDA value :
            export_line(int_exported(field_name, value), env_var, str_int(value)))
    ELSE IF fd.fieldType = "float"
    THEN With(dict_get(config, field_name, fd.default), LAMBDA value :
            export_line(value # fd.default, env_var, str_float(value)))
    ELSE With(dict_get(config, field_name, ""), LAMBDA value :
            export_line(value # "", env_var, value))

script_field_lines(field_name, config) ==
    With(FieldDef(field_name), LAMBDA fd :
    With(get_env_var_name(field_name), LAMBDA env_var :
        script_field_export(field_name, fd, env_var, config)))

\* get_script_generation_logic: the script-location fields in schema order
RECURSIVE generate_script_lines_from(_, _)
generate_script_lines_from(i, config) ==
    IF i > Len(CONFIG_SCHEMA_DEF) THEN <<>>
    ELSE (IF CONFIG_SCHEMA_DEF[i].location = "script"
          THEN script_field_lines(CONFIG_SCHEMA_DEF[i].name, config) ELSE <<>>)
         \o generate_script_lines_from(i + 1, config)

generate_script_lines(config) == generate_script_lines_from(1, config)

\* a script whose exports follow the export of LSFG_PROCESS
script_lines_exports_last(current_profile, exports) ==
    <<"#!/bin/bash",
      "# Current profile: " \o current_profile,
      "    export LSFG_PROCESS=" \o current_profile>>
    \o exports
    \o <<"", "exec \"$@\"">>

\* configuration.py 232-262: the script around the export lines
script_lines(current_profile, exports) ==
    <<"#!/bin/bash",
      "# lsfg-vk launch script generated by decky-lossless-scaling-vk plugin",
      "# Current profile: " \o current_profile,
      "# This script sets up the environment for lsfg-vk to work with the plugin configuration">>
    \o exports
    \o <<"",
         "# Check if script was called with override syntax (e.g., ~/lsfg=profile_name)",
         "if [[ \"$0\" == *\"=\"* ]]; then",
         "    # Extract override value from script name",
         "    OVERRIDE_PROCESS=\"${0##*=}\"",
         "    export LSFG_PROCESS=\"$OVERRIDE_PROCESS\"",
         "else",
         "    # Use current profile as default",
         "    export LSFG_PROCESS=" \o current_profile,
         "fi",
         "",
         "exec \"$@\"">>

\* configuration.py 226-232: every item of global_config is laid over the
\* config of the current profile
script_merged_config(pd) == pd.global_config @@ current_config_of(pd)

\* ConfigurationService._generate_script_content_for_profile
generate_script_content_for_profile(profile_data) ==
    With(profile_data, LAMBDA pd :
    With(script_merged_config(pd), LAMBDA merged :
    With(generate_script_lines(merged), LAMBDA exports :
        join_lines(script_lines(pd.current_profile, exports)) \o <<"">>)))

\* configuration.py 189-213: the script of the installer around the export
\* lines, which names the default profile
default_script_lines(exports) ==
    <<"#!/bin/bash",
      "# lsfg-vk launch script generated by decky-lossless-scaling-vk plugin",
      "# This script sets up the environment for lsfg-vk to work with the plugin configuration">>
    \o exports
    \o <<"",
         "# Check if script was called with override syntax (e.g., ~/lsfg=profile_name)",
         "if [[ \"$0\" == *\"=\"* ]]; then",
         "    # Extract override value from script name",
         "    OVERRIDE_PROCESS=\"${0##*=}\"",
         "    export LSFG_PROCESS=\"$OVERRIDE_PROCESS\"",
         "else",
         "    # Use default profile",
         "    export LSFG_PROCESS=decky-lsfg-vk",
         "fi",
         "",
         "exec \"$@\"">>

\* ConfigurationService._generate_script_content
generate_script_content(config) ==
    With(generate_script_lines(config), LAMBDA exports :
        join_lines(default_script_lines(exports)) \o <<"">>)

\* script_values with the converted value stored, unchanged after a ValueError
store_converted(script_values, field_name, converted) ==
    IF converted.ok THEN dict_set(script_values, field_name, converted.v) ELSE script_values

\* generate_script_parsing, lines 100-130: the effect of one export on one field
script_parse_field(script_values, field_name, key, value) ==
    IF key # get_env_var_name(field_name) THEN script_values
    ELSE With(FieldDef(field_name).fieldType, LAMBDA ft :
        IF ft = "boolean"
        THEN IF field_name = "disable_steamdeck_mode"
             THEN dict_set(script_values, field_name, value = "0")
             ELSE IF field_name = "enable_wsi"
             THEN dict_set(script_values, field_name, value # "0")
             ELSE dict_set(script_values, field_name, value = "1")
        ELSE IF ft = "integer"
        THEN With(int_of(value), LAMBDA i : store_converted(script_values, field_name, i))
        ELSE IF ft = "float"
        THEN With(float_of(value), LAMBDA x : store_converted(script_values, field_name, x))
        ELSE dict_set(script_values, field_name, value))

RECURSIVE script_parse_fields_from(_, _, _, _)
script_parse_fields_from(i, script_values, key, value) ==
    IF i > Len(CONFIG_SCHEMA_DEF) THEN script_values
    ELSE IF CONFIG_SCHEMA_DEF[i].location # "script"
    THEN script_parse_fields_from(i + 1, script_values, key, value)
    ELSE With(script_parse_field(script_values, CONFIG_SCHEMA_DEF[i].name, key, value),
              LAMBDA stored : script_parse_fields_from(i + 1, stored, key, value))

\* parse_script_values, lines 232-238: an export line holding "="
script_parse_export(script_values, line) ==
    With(split1(SubSeq(line, Len("export ") + 1, Len(line)), "="), LAMBDA kv :
    With(strip(kv.key), LAMBDA key :
    With(strip(kv.value), LAMBDA value :
        script_parse_fields_from(1, script_values, key, value))))

\* a line loop that reads a commented-out export like an export
script_parse_line_uncommenting(script_values, raw) ==
    With(strip(raw), LAMBDA stripped :
    With(IF startswith(stripped, "# ") THEN SubSeq(stripped, 3, Len(stripped))
         ELSE stripped, LAMBDA line :
        IF line = "" \/ ~startswith(line, "export ") THEN script_values
        ELSE IF find(line, "=") > 0 THEN script_parse_export(script_values, line)
        ELSE script_values))

\* parse_script_values: the body of the line loop
script_parse_line(script_values, raw) ==
    With(strip(raw), LAMBDA line :
        IF line = "" \/ startswith(line, "#") \/ ~startswith(line, "export ")
        THEN script_values
        ELSE IF find(line, "=") > 0 THEN script_parse_export(script_values, line)
        ELSE script_values)

\* the for loop of parse_script_values over lines lo..hi; the values after the
\* first half are computed before the second half is scanned
RECURSIVE script_parse_lines(_, _, _, _)
script_parse_lines(script_values, lines, lo, hi) ==
    IF lo > hi THEN script_values
    ELSE IF lo = hi THEN script_parse_line(script_values, lines[lo])
    ELSE With((lo + hi) \div 2, LAMBDA mid :
         With(script_parse_lines(script_values, lines, lo, mid), LAMBDA left :
            script_parse_lines(left, lines, mid + 1, hi)))

\* ConfigurationManager.parse_script_content
parse_script_content(script_content) ==
    With(script_content, LAMBDA lines :
        script_parse_lines(EmptyDict, lines, 1, Len(lines)))

\* ConfigurationManager.merge_config_with_script
merge_config_with_script(toml_config, script_values) ==
    With(toml_config, LAMBDA merged_config :
    With(script_values, LAMBDA values :
    With(SCRIPT_ONLY_FIELDS \cap DOMAIN values, LAMBDA overlaid :
        [f \in (DOMAIN merged_config) \cup overlaid |->
            IF f \in overlaid THEN values[f] ELSE merged_config[f]])))

(***************************************************************************)
(* ProfileStore (config_schema.py 450-569).  A result is                   *)
(* [ok, pd, error]: ok = FALSE is the raised ValueError.                   *)
(***************************************************************************)
Raised(msg) == [ok |-> FALSE, pd |-> ProfileData("", NoProfiles, EmptyDict), error |-> msg]

Returned(pd) == [ok |-> TRUE, pd |-> pd, error |-> ""]

\* invalid_chars of line 457; the backquote, which a TLA+ string cannot hold, is
\* left out, and no name of the model contains it
InvalidChars == " \t\n\r'\"\\/$|&;()<>{}[]*?"

\* set(invalid_chars)
InvalidCharSet == {CharAt(InvalidChars, i) : i \in 1..Len(InvalidChars)}

ReservedNames == {"global", "game", "current_profile"}

\* a validation that compares the name itself with the reserved names
validate_profile_name_case_sensitive(profile_name) ==
    /\ profile_name # ""
    /\ \A i \in 1..Len(profile_name) : CharAt(profile_name, i) \notin InvalidCharSet
    /\ profile_name \notin ReservedNames

\* ConfigurationManager.validate_profile_name
validate_profile_name(profile_name) ==
    /\ profile_name # ""
    /\ \A i \in 1..Len(profile_name) : CharAt(profile_name, i) \notin InvalidCharSet
    /\ lower(profile_name) \notin ReservedNames

\* a create that never copies the source profile
create_profile_from_defaults(profile_data, profile_name, source_profile) ==
    IF ~validate_profile_name(profile_name) \/ HasProfile(profile_data.profiles, profile_name)
    THEN Raised("Invalid profile name: " \o profile_name)
    ELSE Returned(ProfileData(profile_data.current_profile,
                              profiles_set(profile_data.profiles, profile_name, get_defaults),
                              profile_data.global_config))

\* ConfigurationManager.create_profile; source_profile = "" is None
create_profile(profile_data, profile_name, source_profile) ==
    IF ~validate_profile_name(profile_name)
    THEN Raised("Invalid profile name: " \o profile_name)
    ELSE IF HasProfile(profile_data.profiles, profile_name)
    THEN Raised("Profile '" \o profile_name \o "' already exists")
    ELSE LET new_config ==
                 IF source_profile # "" /\ HasProfile(profile_data.profiles, source_profile)
                 THEN profile_data.profiles.cfg[source_profile]
                 ELSE get_defaults
         IN  Returned(ProfileData(profile_data.current_profile,
                                  profiles_set(profile_data.profiles, profile_name, new_config),
                                  profile_data.global_config))

\* a delete that leaves current_profile as it was
delete_keep_current(pd, profile_name) == pd

\* config_schema.py 512-517: after the removal, a deleted current profile is
\* replaced by the default profile
delete_fix_current(pd, profile_name) ==
    With(pd, LAMBDA removed :
        IF removed.current_profile = profile_name
        THEN ProfileData(DEFAULT_PROFILE_NAME,
                         IF HasProfile(removed.profiles, DEFAULT_PROFILE_NAME)
                         THEN removed.profiles
                         ELSE profiles_set(removed.profiles, DEFAULT_PROFILE_NAME,
                                           get_defaults),
                         removed.global_config)
        ELSE removed)

\* a delete that does not refuse the default profile
delete_profile_any(profile_data, profile_name) ==
    IF ~HasProfile(profile_data.profiles, profile_name)
    THEN Raised("Profile '" \o profile_name \o "' does not exist")
    ELSE Returned(delete_fix_current(
            ProfileData(profile_data.current_profile,
                        profiles_del(profile_data.profiles, profile_name),
                        profile_data.global_config),
            profile_name))

\* ConfigurationManager.delete_profile
delete_profile(profile_data, profile_name) ==
    IF profile_name = DEFAULT_PROFILE_NAME
    THEN Raised("Cannot delete default profile '" \o DEFAULT_PROFILE_NAME \o "'")
    ELSE IF ~HasProfile(profile_data.profiles, profile_name)
    THEN Raised("Profile '" \o profile_name \o "' does not exist")
    ELSE Returned(delete_fix_current(
            ProfileData(profile_data.current_profile,
                        profiles_del(profile_data.profiles, profile_name),
                        profile_data.global_config),
            profile_name))

\* a rename that moves the renamed profile behind the others
profiles_renamed_last(profiles, old_name, new_name) ==
    [order |-> Append(SelectSeq(profiles.order, LAMBDA n : n # old_name), new_name),
     cfg |-> [n \in ((DOMAIN profiles.cfg) \ {old_name}) \cup {new_name} |->
                    IF n = new_name THEN profiles.cfg[old_name] ELSE profiles.cfg[n]]]

\* config_schema.py 543-548: the profiles in their order, old_name replaced
profiles_renamed(profiles, old_name, new_name) ==
    [order |-> [i \in 1..Len(profiles.order) |->
                    IF profiles.order[i] = old_name THEN new_name ELSE profiles.order[i]],
     cfg |-> [n \in ((DOMAIN profiles.cfg) \ {old_name}) \cup {new_name} |->
                    IF n = new_name THEN profiles.cfg[old_name] ELSE profiles.cfg[n]]]

\* ConfigurationManager.rename_profile
rename_profile(profile_data, old_name, new_name) ==
    IF old_name = DEFAULT_PROFILE_NAME
    THEN Raised("Cannot rename default profile '" \o DEFAULT_PROFILE_NAME \o "'")
    ELSE IF ~validate_profile_name(new_name)
    THEN Raised("Invalid profile name: " \o new_name)
    ELSE IF ~HasProfile(profile_data.profiles, old_name)
    THEN Raised("Profile '" \o old_name \o "' does not exist")
    ELSE IF HasProfile(profile_data.profiles, new_name)
    THEN Raised("Profile '" \o new_name \o "' already exists")
    ELSE Returned(ProfileData(
            IF profile_data.current_profile = old_name THEN new_name
            ELSE profile_data.current_profile,
            profiles_renamed(profile_data.profiles, old_name, new_name),
            profile_data.global_config))

\* a switch that accepts a profile the set does not hold
set_current_profile_unchecked(profile_data, profile_name) ==
    Returned(ProfileData(profile_name, profile_data.profiles, profile_data.global_config))

\* ConfigurationManager.set_current_profile
set_current_profile(profile_data, profile_name) ==
    IF ~HasProfile(profile_data.profiles, profile_name)
    THEN Raised("Profile '" \o profile_name \o "' does not exist")
    ELSE Returned(ProfileData(profile_name, profile_data.profiles,
                              profile_data.global_config))

(***************************************************************************)
(* DllDetectionService.  The environment is [vars, paths, vdf]: vars maps  *)
(* the environment variables that are set to their value, paths maps every *)
(* path that is not simply absent to "present" or, when looking at it      *)
(* raises OSError (a directory that may not be searched), to "raises", and *)
(* vdf maps a libraryfolders.vdf to the strings its "path" entries hold    *)
(* ("unreadable" in paths: the file exists and open() raises).             *)
(***************************************************************************)
ENV_LSFG_DLL_PATH == "LSFG_DLL_PATH"
ENV_XDG_DATA_HOME == "XDG_DATA_HOME"
ENV_HOME == "HOME"
STEAM_COMMON_PATH == "steamapps/common/Lossless Scaling"
LOSSLESS_DLL_NAME == "Lossless.dll"

\* os.getenv(name): <<>> for None
getenv(env, name) == IF name \in DOMAIN env.vars THEN <<env.vars[name]>> ELSE <<>>

\* "if value and value.strip()"
env_value_given(value) == value # <<>> /\ strip(value[1]) # ""

\* str(Path(s)) of a non-empty s: repeated and trailing slashes are dropped
RECURSIVE path_chars(_, _)
path_chars(s, i) ==
    IF i > Len(s) THEN ""
    ELSE IF CharAt(s, i) = "/" /\ i > 1 /\ CharAt(s, i - 1) = "/" THEN path_chars(s, i + 1)
    ELSE CharAt(s, i) \o path_chars(s, i + 1)

path_str(s) ==
    With(path_chars(s, 1), LAMBDA p :
        IF Len(p) > 1 /\ endswith(p, "/") THEN SubSeq(p, 1, Len(p) - 1) ELSE p)

\* str(Path(p) / rel) of a path string p and a relative path rel
path_join(p, rel) == IF p = "/" THEN "/" \o rel ELSE p \o "/" \o rel

\* what looking at the path gives: "present", "absent" or "raises"
path_status(env, p) ==
    IF p \notin DOMAIN env.paths THEN "absent"
    ELSE IF env.paths[p] = "unreadable" THEN "present"
    ELSE env.paths[p]

\* str(e) of the OSError of a path
os_error_text(p) == "[Errno 13] Permission denied: '" \o p \o "'"

\* the three outcomes of a _check_ method: a response, None, or the OSError
\* of Path.exists()
Found(path, source) == [kind |-> "found", path |-> path, source |-> source, error |-> ""]
NotFound == [kind |-> "none", path |-> "", source |-> "", error |-> ""]
CheckRaised(p) == [kind |-> "raised", path |-> "", source |-> "", error |-> os_error_text(p)]

\* "if dll_path.exists(): return {...}" and the "return None" after it
check_exists(env, dll_path, source) ==
    With(path_status(env, dll_path), LAMBDA status :
        IF status = "raises" THEN CheckRaised(dll_path)
        ELSE IF status = "present" THEN Found(dll_path, source)
        ELSE NotFound)

\* DllDetectionService._check_env_dll_path
check_env_dll_path(env) ==
    With(getenv(env, ENV_LSFG_DLL_PATH), LAMBDA dll_path :
        IF env_value_given(dll_path)
        THEN check_exists(env, path_str(strip(dll_path[1])),
                          ENV_LSFG_DLL_PATH \o " environment variable")
        ELSE NotFound)

\* Path(data_dir.strip()) / "Steam" and Path(home_dir.strip()) / ".local" / "share" / "Steam"
xdg_steam_path(data_dir) == path_join(path_str(strip(data_dir)), "Steam")
home_steam_path(home_dir) == path_join(path_str(strip(home_dir)), ".local/share/Steam")

\* library / STEAM_COMMON_PATH / LOSSLESS_DLL_NAME
dll_in(library_path) ==
    path_join(library_path, STEAM_COMMON_PATH \o "/" \o LOSSLESS_DLL_NAME)

\* a detection that looks under HOME where it should look under XDG_DATA_HOME
check_xdg_data_home_under_home(env) ==
    With(getenv(env, ENV_HOME), LAMBDA home_dir :
        IF env_value_given(home_dir)
        THEN check_exists(env, dll_in(home_steam_path(home_dir[1])),
                          ENV_HOME \o "/.local/share Steam directory")
        ELSE NotFound)

\* DllDetectionService._check_xdg_data_home
check_xdg_data_home(env) ==
    With(getenv(env, ENV_XDG_DATA_HOME), LAMBDA data_dir :
        IF env_value_given(data_dir)
        THEN check_exists(env, dll_in(xdg_steam_path(data_dir[1])),
                          ENV_XDG_DATA_HOME \o " Steam directory")
        ELSE NotFound)

\* DllDetectionService._check_home_local_share
check_home_local_share(env) ==
    With(getenv(env, ENV_HOME), LAMBDA home_dir :
        IF env_value_given(home_dir)
        THEN check_exists(env, dll_in(home_steam_path(home_dir[1])),
                          ENV_HOME \o "/.local/share Steam directory")
        ELSE NotFound)

\* path_match.replace('\\\\', '/').replace('\\', '/'): a pair of backslashes,
\* then every backslash that is left, becomes a slash
RECURSIVE backslashes_replaced(_, _)
backslashes_replaced(s, i) ==
    IF i > Len(s) THEN ""
    ELSE IF CharAt(s, i) = "\\"
    THEN IF i < Len(s) /\ CharAt(s, i + 1) = "\\"
         THEN "/" \o backslashes_replaced(s, i + 2)
         ELSE "/" \o backslashes_replaced(s, i + 1)
    ELSE CharAt(s, i) \o backslashes_replaced(s, i + 1)

\* dll_detection.py 212-218: the matches from the i-th on; the first look that
\* raises ends the loop in the handler of line 220, which keeps what was found
RECURSIVE vdf_libraries_from(_, _, _)
vdf_libraries_from(env, matches, i) ==
    IF i > Len(matches) THEN <<>>
    ELSE With(path_str(backslashes_replaced(matches[i], 1)), LAMBDA library_path :
         With(path_status(env, library_path), LAMBDA status :
            IF status = "raises" THEN <<>>
            ELSE IF status = "absent" THEN vdf_libraries_from(env, matches, i + 1)
            ELSE With(path_status(env, path_join(library_path, "steamapps")), LAMBDA apps :
                    IF apps = "raises" THEN <<>>
                    ELSE IF apps = "present"
                    THEN <<library_path>> \o vdf_libraries_from(env, matches, i + 1)
                    ELSE vdf_libraries_from(env, matches, i + 1))))

\* DllDetectionService._parse_library_folders_vdf: nothing when open() raises
parse_library_folders_vdf(env, vdf_path) ==
    IF env.paths[vdf_path] = "unreadable" \/ vdf_path \notin DOMAIN env.vdf THEN <<>>
    ELSE vdf_libraries_from(env, env.vdf[vdf_path], 1)

\* [raised, paths, error]: the list a method returns, or the OSError it raised
Listed(paths) == [raised |-> FALSE, paths |-> paths, error |-> ""]
ListRaised(p) == [raised |-> TRUE, paths |-> <<>>, error |-> os_error_text(p)]

\* dll_detection.py 172-182: the Steam directories from the i-th on
RECURSIVE steam_libraries_from(_, _, _)
steam_libraries_from(env, steam_paths, i) ==
    IF i > Len(steam_paths) THEN Listed(<<>>)
    ELSE With(steam_paths[i], LAMBDA steam_path :
         With(path_status(env, steam_path), LAMBDA status :
            IF status = "raises" THEN ListRaised(steam_path)
            ELSE IF status = "absent" THEN steam_libraries_from(env, steam_paths, i + 1)
            ELSE With(path_join(steam_path, "steamapps/libraryfolders.vdf"), LAMBDA vdf_path :
                 With(path_status(env, vdf_path), LAMBDA vdf_status :
                    IF vdf_status = "raises" THEN ListRaised(vdf_path)
                    ELSE With(steam_libraries_from(env, steam_paths, i + 1), LAMBDA rest :
                        IF rest.raised THEN rest
                        ELSE Listed(<<steam_path>>
                                    \o (IF vdf_status = "present"
                                        THEN parse_library_folders_vdf(env, vdf_path)
                                        ELSE <<>>)
                                    \o rest.paths))))))

\* dll_detection.py 184-190: the first occurrence of every path, in order
unique_paths(paths) ==
    SelectSeq([i \in 1..Len(paths) |->
                  IF \E j \in 1..(i - 1) : paths[j] = paths[i] THEN "" ELSE paths[i]],
              LAMBDA p : p # "")

\* DllDetectionService._get_steam_library_paths
get_steam_library_paths(env) ==
    With(getenv(env, ENV_XDG_DATA_HOME), LAMBDA data_dir :
    With(getenv(env, ENV_HOME), LAMBDA home_dir :
    With((IF env_value_given(data_dir) THEN <<xdg_steam_path(data_dir[1])>> ELSE <<>>)
         \o (IF env_value_given(home_dir) THEN <<home_steam_path(home_dir[1])>> ELSE <<>>),
         LAMBDA steam_paths :
    With(steam_libraries_from(env, steam_paths, 1), LAMBDA found :
        IF found.raised THEN found ELSE Listed(unique_paths(found.paths))))))

\* dll_detection.py 140-152: the libraries from the i-th on
RECURSIVE check_libraries_from(_, _, _)
check_libraries_from(env, steam_libraries, i) ==
    IF i > Len(steam_libraries) THEN NotFound
    ELSE With(check_exists(env, dll_in(steam_libraries[i]),
                           "Steam library folder: " \o steam_libraries[i]), LAMBDA r :
            IF r.kind = "none" THEN check_libraries_from(env, steam_libraries, i + 1) ELSE r)

\* DllDetectionService._check_steam_library_folders
check_steam_library_folders(env) ==
    With(get_steam_library_paths(env), LAMBDA steam_libraries :
        IF steam_libraries.raised
        THEN [kind |-> "raised", path |-> "", source |-> "", error |-> steam_libraries.error]
        ELSE check_libraries_from(env, steam_libraries.paths, 1))

\* the DllDetectionResponse of a check that found the DLL, of the end of the
\* search, and of the handler of line 58
detection_response(r) ==
    IF r.kind = "found"
    THEN [detected |-> TRUE, path |-> PyStr(r.path), source |-> PyStr(r.source),
          message |-> PyNone, error |-> PyNone]
    ELSE IF r.kind = "none"
    THEN [detected |-> FALSE, path |-> PyNone, source |-> PyNone,
          message |-> PyStr("Lossless Scaling DLL not found in expected locations"),
          error |-> PyNone]
    ELSE [detected |-> FALSE, path |-> PyNone, source |-> PyNone, message |-> PyNone,
          error |-> PyStr(r.error)]

\* DllDetectionService.check_lossless_scaling_dll
check_lossless_scaling_dll(env) ==
    With(check_env_dll_path(env), LAMBDA dll_path :
        IF dll_path.kind # "none" THEN detection_response(dll_path)
        ELSE With(check_xdg_data_home(env), LAMBDA xdg_path :
            IF xdg_path.kind # "none" THEN detection_response(xdg_path)
            ELSE With(check_home_local_share(env), LAMBDA home_path :
                IF home_path.kind # "none" THEN detection_response(home_path)
                ELSE detection_response(check_steam_library_folders(env)))))

(***************************************************************************)
(* Defaults of a missing config file                                       *)
(***************************************************************************)
\* ConfigurationManager.get_defaults_with_dll_detection; detected is the path
\* check_lossless_scaling_dll reports, "" when it reports none or raises
get_defaults_with_dll_detection(detected) ==
    With(IF detected # "" THEN [get_defaults EXCEPT !["dll"] = detected]
         ELSE get_defaults, LAMBDA defaults :
        IF defaults["dll"] = ""
        THEN [defaults EXCEPT
                !["dll"] = "/home/deck/.local/share/Steam/steamapps/common/Lossless Scaling/Lossless.dll"]
        ELSE defaults)

\* ConfigurationService._get_profile_data, lines 266-278: the ProfileSet of a
\* missing config file
missing_file_profile_data(detected) ==
    With(get_defaults_with_dll_detection(detected), LAMBDA default_config :
        ProfileData(DEFAULT_PROFILE_NAME,
                    profiles_set(NoProfiles, DEFAULT_PROFILE_NAME, default_config),
                    ("dll" :> dict_get(default_config, "dll", ""))
                        @@ ("no_fp16" :> dict_get(default_config, "no_fp16", FALSE))))

(***************************************************************************)
(* ConfigurationService: the files, the responses and the handlers up to   *)
(* their first write                                                       *)
(***************************************************************************)
\* BaseService.__init__: config_file_path and lsfg_script_path under the home
\* directory; the file system is a function from the paths that exist to
\* their text
ConfigPath == "conf.toml"
ScriptPath == "lsfg"

\* path.exists()
exists(files, path) == path \in DOMAIN files

\* the text of a path, <<>> when the path does not exist
file_content(files, path) == IF exists(files, path) THEN files[path] ELSE <<>>

NoConfig == <<>>

\* the result every handler returns: config is <<>> for None and <<c>> for a
\* configuration c, profile_name is "" for None
success_response(message, config, profile_name) ==
    [success |-> TRUE, message |-> message, error |-> "", config |-> config,
     profile_name |-> profile_name]

error_response(error, config, profile_name) ==
    [success |-> FALSE, message |-> "", error |-> error, config |-> config,
     profile_name |-> profile_name]

\* a load that does not read the config file
get_profile_data_unread(files, detected) == missing_file_profile_data(detected)

\* ConfigurationService._get_profile_data
get_profile_data(files, detected) ==
    IF ~exists(files, ConfigPath) THEN missing_file_profile_data(detected)
    ELSE parse_toml_content_multi_profile(files[ConfigPath])

\* ConfigurationService.get_config, lines 29-40: the config of the file, or
\* the defaults, and the values the launch script exports
toml_config_of(files, detected) ==
    IF ~exists(files, ConfigPath) THEN get_defaults_with_dll_detection(detected)
    ELSE parse_toml_content(files[ConfigPath])

script_values_of(files) ==
    IF exists(files, ScriptPath) THEN parse_script_content(files[ScriptPath])
    ELSE EmptyDict

\* ConfigurationService.get_config; os_error is the OSError a read of the
\* config file may raise.  The scan of the script raises nothing, so the
\* handlers of lines 42-43 and 56-63 are not entered.
get_config(files, detected, os_error) ==
    IF os_error /\ exists(files, ConfigPath)
    THEN error_response("[Errno 13] Permission denied", NoConfig, "")
    ELSE success_response("",
            <<merge_config_with_script(toml_config_of(files, detected),
                                       script_values_of(files))>>, "")

\* a listing that does not read the config file
get_profiles_unread(files, detected) ==
    With(missing_file_profile_data(detected), LAMBDA profile_data :
        [profiles |-> profile_data.profiles.order,
         current_profile |-> profile_data.current_profile])

\* ConfigurationService.get_profiles reports these two values
get_profiles(files, detected) ==
    With(get_profile_data(files, detected), LAMBDA profile_data :
        [profiles |-> profile_data.profiles.order,
         current_profile |-> profile_data.current_profile])

\* What a handler has decided when it reaches its first write: the ProfileSet
\* to persist, whether the launch script is rewritten after it, and the
\* response it returns when the config file has been written
Prepared(pd, script, response) ==
    [ok |-> TRUE, pd |-> pd, script |-> script, response |-> response]

\* a handler that returns an error response without writing
Refused(response) ==
    [ok |-> FALSE, pd |-> ProfileData("", NoProfiles, EmptyDict), script |-> FALSE,
     response |-> response]

\* configuration.py 486-490: the global fields of the config, copied into the
\* global section
global_config_updated(global_config, config) ==
    With({"dll", "no_fp16"} \cap DOMAIN config, LAMBDA global_fields :
        [f \in (DOMAIN global_config) \cup global_fields |->
            IF f \in global_fields THEN config[f] ELSE global_config[f]])

\* ConfigurationService.update_profile_config, lines 478-493 and 505-507
Service_update_profile_config(profile_data, profile_name, config) ==
    IF ~HasProfile(profile_data.profiles, profile_name)
    THEN Refused(error_response("Profile '" \o profile_name \o "' does not exist",
                                NoConfig, ""))
    ELSE Prepared(ProfileData(profile_data.current_profile,
                              profiles_set(profile_data.profiles, profile_name, config),
                              global_config_updated(profile_data.global_config, config)),
                  profile_name = profile_data.current_profile,
                  success_response("Profile '" \o profile_name
                                       \o "' configuration updated successfully",
                                   <<config>>, ""))

\* create_config_dict of config_schema_generated.py, called with every field
\* as a keyword argument
create_config_from_args(kwargs) == [f \in FieldNames |-> kwargs[f]]

\* ConfigurationService.update_config and update_config_from_dict: the current
\* profile of the file is updated
Service_update_config(profile_data, kwargs) ==
    With(create_config_from_args(kwargs), LAMBDA config :
        Service_update_profile_config(profile_data, profile_data.current_profile, config))

\* ConfigurationService.update_dll_path, lines 124-131 and 140-142
Service_update_dll_path(profile_data, dll_path) ==
    With([profile_data.profiles.cfg[profile_data.current_profile] EXCEPT !["dll"] = dll_path],
         LAMBDA config :
        Prepared(ProfileData(profile_data.current_profile,
                             profiles_set(profile_data.profiles,
                                          profile_data.current_profile, config),
                             dict_set(profile_data.global_config, "dll", dll_path)),
                 TRUE,
                 success_response("DLL path updated to: " \o dll_path, <<config>>, "")))

\* the except ValueError branch of the profile handlers
StoreRefused(r) == Refused(error_response(r.error, NoConfig, ""))

\* the handler's answer to the result r of the store: the ValueError becomes an
\* error response, a new ProfileSet is persisted
StoreAnswer(r, script, message, profile_name) ==
    IF ~r.ok THEN StoreRefused(r)
    ELSE Prepared(r.pd, script, success_response(message, NoConfig, profile_name))

\* ConfigurationService.create_profile, lines 325-332 and 338-340: the launch
\* script is not rewritten
Service_create_profile(profile_data, profile_name, source_profile) ==
    With(create_profile(profile_data, profile_name,
                        IF source_profile = "" THEN profile_data.current_profile
                        ELSE source_profile), LAMBDA r :
        StoreAnswer(r, FALSE, "Profile '" \o profile_name \o "' created successfully",
                    profile_name))

\* ConfigurationService.delete_profile, lines 362-365 and 377-379
Service_delete_profile(profile_data, profile_name) ==
    With(delete_profile(profile_data, profile_name), LAMBDA r :
        StoreAnswer(r, TRUE, "Profile '" \o profile_name \o "' deleted successfully",
                    profile_name))

\* ConfigurationService.rename_profile, lines 401-404 and 416-418
Service_rename_profile(profile_data, old_name, new_name) ==
    With(rename_profile(profile_data, old_name, new_name), LAMBDA r :
        StoreAnswer(r, TRUE, "Profile renamed from '" \o old_name \o "' to '"
                                \o new_name \o "' successfully",
                    new_name))

\* ConfigurationService.set_current_profile, lines 439-442 and 454-456
Service_set_current_profile(profile_data, profile_name) ==
    With(set_current_profile(profile_data, profile_name), LAMBDA r :
        StoreAnswer(r, TRUE, "Current profile set to '" \o profile_name
                                \o "' successfully",
                    profile_name))

\* a call of a mutating handler: op names the handler, name and other are its
\* string arguments, config its configuration argument
Call(op, name, other, config) == [op |-> op, name |-> name, other |-> other, config |-> config]

\* the handler of a call, run on the ProfileSet it loaded
Dispatch(call, profile_data) ==
    IF call.op = "update_profile_config"
    THEN Service_update_profile_config(profile_data, call.name, call.config)
    ELSE IF call.op = "update_config"
    THEN Service_update_config(profile_data, call.config)
    ELSE IF call.op = "update_dll_path"
    THEN Service_update_dll_path(profile_data, call.name)
    ELSE IF call.op = "create_profile"
    THEN Service_create_profile(profile_data, call.name, call.other)
    ELSE IF call.op = "delete_profile"
    THEN Service_delete_profile(profile_data, call.name)
    ELSE IF call.op = "rename_profile"
    THEN Service_rename_profile(profile_data, call.name, call.other)
    ELSE Service_set_current_profile(profile_data, call.name)

Handle(call, profile_data) ==
    With(profile_data, LAMBDA loaded : Dispatch(call, loaded))

(***************************************************************************)
(* BaseService._atomic_write, which writes both files: a temporary file in *)
(* the directory of the target, written, closed, given its mode and        *)
(* renamed onto the target                                                 *)
(***************************************************************************)
\* the calls in progress at one time
Callers == {1, 2}

\* tempfile.NamedTemporaryFile(dir=path.parent, prefix='.<name>.', suffix='.tmp'):
\* a name of that shape that does not exist yet (the first free one stands for
\* the random one)
\* a write that opens the target itself
temp_name_in_place(path, files) == path

temp_file_name(path, k) == "." \o path \o "." \o str_nat(k) \o ".tmp"

temp_name(path, files) ==
    With({k \in 1..(Cardinality(DOMAIN files) + 1) :
            temp_file_name(path, k) \notin DOMAIN files}, LAMBDA free :
        temp_file_name(path, CHOOSE k \in free : \A j \in free : k <= j))

\* an empty file
EmptyFile == <<"">>

\* what a write interrupted half way has put into the file
partial_content(content) == SubSeq(content, 1, Len(content) \div 2)

\* a new file, or new text in an existing one
file_put(files, path, content) == (path :> content) @@ files

\* temp_path.unlink()
file_unlink(files, path) == [q \in (DOMAIN files) \ {path} |-> files[q]]

\* temp_path.replace(path)
file_replace(files, temp_path, path) ==
    file_unlink(file_put(files, path, files[temp_path]), temp_path)

\* self._write_file(path, content, mode) of the service
write_file_mode(path) == IF path = ScriptPath THEN "755" ELSE "644"

(***************************************************************************)
(* InstallationService                                                     *)
(***************************************************************************)
\* InstallationService.__init__: lib_file and json_file under the home directory
LibPath == ".local/lib/liblsfg-vk.so"
JsonPath == ".local/share/vulkan/implicit_layer.d/VkLayer_LS_frame_generation.json"

\* self.lsfg_launch_script_path, which no class of src/ assigns: the ~/lsfg
\* launch script of installation.py 209, the path of lsfg_script_path
LaunchScriptPath == ScriptPath

\* what the archive holds for the two paths; the text of the layer JSON has
\* the library path _copy_and_fix_json_file gives it
LibContent == <<"liblsfg-vk.so">>
JsonContent == <<"\"library_path\": \"../../../lib/liblsfg-vk.so\"">>

\* ConfigurationManager.generate_toml_content
generate_toml_content(config) ==
    generate_toml_content_multi_profile(
        ProfileData(DEFAULT_PROFILE_NAME,
                    profiles_set(NoProfiles, DEFAULT_PROFILE_NAME, config),
                    ("dll" :> dict_get(config, "dll", ""))
                        @@ ("no_fp16" :> dict_get(config, "no_fp16", FALSE))))

\* installation.py 396-408: the profile's values, and the default of every
\* field it lacks that is not global
merged_profile_config(existing_profile_config, default_config) ==
    [f \in (DOMAIN existing_profile_config) \cup (DOMAIN default_config \ {"dll", "no_fp16"}) |->
        IF f \in DOMAIN existing_profile_config THEN existing_profile_config[f]
        ELSE default_config[f]]

\* installation.py 376-387: the global section with the missing fields added
\* and the dll replaced by a detected path
merged_global_config(global_config, default_config, detected) ==
    With([f \in (DOMAIN global_config) \cup {"dll", "no_fp16"} |->
            IF f \in DOMAIN global_config THEN global_config[f]
            ELSE IF f = "dll" THEN dict_get(default_config, "dll", "")
            ELSE FALSE], LAMBDA with_missing :
        IF detected # "" THEN dict_set(with_missing, "dll", detected) ELSE with_missing)

\* a merge that makes the default profile the current one
merge_config_with_defaults_current_reset(existing_profile_data, detected) ==
    With(get_defaults_with_dll_detection(detected), LAMBDA default_config :
        ProfileData(DEFAULT_PROFILE_NAME,
                    [order |-> existing_profile_data.profiles.order,
                     cfg |-> [n \in DOMAIN existing_profile_data.profiles.cfg |->
                                merged_profile_config(existing_profile_data.profiles.cfg[n],
                                                      default_config)]],
                    merged_global_config(existing_profile_data.global_config,
                                         default_config, detected)))

\* InstallationService._merge_config_with_defaults; detected is the path
\* check_lossless_scaling_dll reports, "" when it reports none
merge_config_with_defaults(existing_profile_data, detected) ==
    With(get_defaults_with_dll_detection(detected), LAMBDA default_config :
    With(merged_global_config(existing_profile_data.global_config, default_config, detected),
         LAMBDA global_config :
        IF existing_profile_data.profiles.order = <<>>
        THEN ProfileData(DEFAULT_PROFILE_NAME,
                         profiles_set(NoProfiles, DEFAULT_PROFILE_NAME,
                                      [f \in DOMAIN default_config \ {"dll", "no_fp16"} |->
                                            default_config[f]]),
                         global_config)
        ELSE ProfileData(existing_profile_data.current_profile,
                         [order |-> existing_profile_data.profiles.order,
                          cfg |-> [n \in DOMAIN existing_profile_data.profiles.cfg |->
                                     merged_profile_config(
                                         existing_profile_data.profiles.cfg[n],
                                         default_config)]],
                         global_config)))

\* InstallationService._create_config_file, lines 166-190: the text it writes.
\* os_error is the OSError the read of an existing file may raise, after
\* which the file is written anew from the defaults.
create_config_file_content(files, detected, os_error) ==
    IF exists(files, ConfigPath) /\ ~os_error
    THEN generate_toml_content_multi_profile(
            merge_config_with_defaults(
                parse_toml_content_multi_profile(files[ConfigPath]), detected))
    ELSE generate_toml_content(get_defaults_with_dll_detection(detected))

\* InstallationService._create_lsfg_launch_script: the text it writes
create_lsfg_launch_script_content == generate_script_content(get_defaults)

\* the files after InstallationService.install with the archive in place
installed_files(files, detected, os_error) ==
    With(create_config_file_content(files, detected, os_error), LAMBDA toml_content :
        file_put(file_put(file_put(file_put(files, LibPath, LibContent),
                                   JsonPath, JsonContent),
                          ConfigPath, toml_content),
                 LaunchScriptPath, create_lsfg_launch_script_content))

installed_modes(modes) ==
    file_put(file_put(file_put(file_put(modes, LibPath, "755"), JsonPath, "644"),
                      ConfigPath, "644"),
             LaunchScriptPath, "755")

\* installation.py 284-292: the paths uninstall looks at, in its order, the
\* old script path last
files_to_remove == <<LibPath, JsonPath, LaunchScriptPath, ScriptPath>>

\* uninstall, lines 286-292, from the i-th path on: _remove_if_exists removes
\* the path when it exists, and raises OSError for the path failing, which
\* ends the loop with the files removed so far gone
RECURSIVE uninstall_from(_, _, _, _)
uninstall_from(files, i, removed_files, failing) ==
    IF i > Len(files_to_remove)
    THEN [files |-> files, removed_files |-> removed_files, raised |-> FALSE]
    ELSE IF ~exists(files, files_to_remove[i])
    THEN uninstall_from(files, i + 1, removed_files, failing)
    ELSE IF files_to_remove[i] = failing
    THEN [files |-> files, removed_files |-> removed_files, raised |-> TRUE]
    ELSE uninstall_from(file_unlink(files, files_to_remove[i]), i + 1,
                        Append(removed_files, files_to_remove[i]), failing)

\* an uninstall that removes the config file with the rest
uninstall_with_config(files, failing) ==
    With(uninstall_from(files, 1, <<>>, failing), LAMBDA done :
        [done EXCEPT !.files = file_unlink(done.files, ConfigPath)])

\* InstallationService.uninstall: the files it leaves, the paths it removed
\* and whether a removal raised
uninstall(files, failing) == uninstall_from(files, 1, <<>>, failing)

\* InstallationService.cleanup_on_uninstall, lines 327-334: every path is
\* tried, a removal that raises is logged and the loop goes on
cleanup_on_uninstall(files, failing) ==
    [q \in (DOMAIN files) \ ({files_to_remove[i] : i \in 1..Len(files_to_remove)} \ {failing})
        |-> files[q]]

(***************************************************************************)
(* State                                                                   *)
(***************************************************************************)
VARIABLES
    \* codec run: the ProfileSet handed to the codecs and what they return
    \* (<<>> until the step has run, a text or <<value>> afterwards)
    profile_data, toml_content, parsed_data, toml_again, script_content, script_values,
    \* profile store run: the in-memory ProfileSet and the last operation
    ps, last,
    \* service run: the text and the mode of every existing path, every
    \* caller's position in its handler, the calls begun and the write
    \* failures so far
    files, modes, call, started, faults,
    \* validator run: the mapping handed to validate_config and what the call
    \* gave (<<>> until it has run)
    raw_config, validated,
    \* merge run: the effective configurations computed from profile_data
    \* (<<>> until the step has run)
    merged_config,
    \* name run: the name handed to validate_profile_name and its answer
    \* (<<>> until it has run)
    candidate_name, name_accepted,
    \* detection run: the environment variables and the paths of the file
    \* system that check_lossless_scaling_dll looks at, and its response
    \* (<<>> until it has run)
    environ, detection,
    \* lifecycle run: the last operation on the installation and its response
    outcome

codecVars == <<profile_data, toml_content, parsed_data, toml_again, script_content,
               script_values>>

storeVars == <<ps, last>>

serviceVars == <<files, modes, call, started, faults>>

validatorVars == <<raw_config, validated>>

mergeVars == <<merged_config>>

nameVars == <<candidate_name, name_accepted>>

detectVars == <<environ, detection>>

lifecycleVars == <<outcome>>

vars == <<codecVars, storeVars, serviceVars, validatorVars, mergeVars, nameVars, detectVars,
          lifecycleVars>>

(***************************************************************************)
(* Bounds and input sets                                                   *)
(***************************************************************************)
\* a Config of the input sets differs from the schema defaults in at most
\* this many fields
MaxChanged == 1

\* the longest input text handed to the parser, in lines
MaxLines == 4

\* the non-default values a field takes in the input sets
Alternatives(f) ==
    IF f = "dll" THEN <<"", "/opt/Lossless.dll">>
    ELSE IF f = "multiplier" THEN <<3, -2>>
    ELSE IF f = "flow_scale" THEN <<12, 5>>
    ELSE IF f = "experimental_present_mode" THEN <<"immediate", "">>
    ELSE IF f = "dxvk_frame_rate" THEN <<45, -1>>
    ELSE IF f = "frame_pacing_target_ms" THEN <<16, -5>>
    ELSE IF FieldDef(f).default THEN <<FALSE>> ELSE <<TRUE>>

MaxAlternatives == 2

\* every Config that differs from the defaults in the fields of S only
ConfigsChanging(S) ==
    {[f \in FieldNames |-> IF f \in S THEN Alternatives(f)[a[f]] ELSE get_defaults[f]] :
        a \in {b \in [S -> 1..MaxAlternatives] : \A f \in S : b[f] <= Len(Alternatives(f))}}

Configs ==
    UNION {ConfigsChanging(S) : S \in {T \in SUBSET FieldNames : Cardinality(T) <= MaxChanged}}

ProfileNames == {DEFAULT_PROFILE_NAME, "feral"}

GlobalConfigs ==
    {EmptyDict,
     ("dll" :> "/opt/Lossless.dll") @@ ("no_fp16" :> TRUE),
     ("dll" :> "") @@ ("no_fp16" :> FALSE)}

\* the ProfileSets handed to the codecs: one profile, or two of which the
\* second holds the defaults
CodecInputs ==
    {ProfileData(n, profiles_set(NoProfiles, n, c), g) :
        n \in ProfileNames, c \in Configs, g \in GlobalConfigs}
    \cup
    {ProfileData(IF first THEN nm[1] ELSE nm[2],
                 profiles_set(profiles_set(NoProfiles, nm[1], c), nm[2], get_defaults), g) :
        nm \in {x \in ProfileNames \X ProfileNames : x[1] # x[2]}, first \in BOOLEAN,
        c \in Configs, g \in GlobalConfigs}

(***************************************************************************)
(* A run of one part of the program leaves the variables of the others at  *)
(* these values                                                            *)
(***************************************************************************)
NoCall == Call("", "", "", get_defaults)

\* a caller outside any handler
IdleCaller ==
    [pc |-> "idle", req |-> NoCall, pd |-> ProfileData("", NoProfiles, EmptyDict),
     script |-> FALSE, target |-> "", content |-> <<>>, temp_path |-> "",
     previous |-> <<>>, failed |-> "", overlapped |-> FALSE, read_error |-> FALSE,
     response |-> success_response("", NoConfig, ""),
     before |-> [req |-> NoCall, success |-> FALSE]]

NoFiles == [q \in {} |-> <<>>]

CodecUnused ==
    /\ profile_data = missing_file_profile_data("")
    /\ toml_content = <<>>
    /\ parsed_data = <<>>
    /\ toml_again = <<>>
    /\ script_content = <<>>
    /\ script_values = <<>>

StoreUnused ==
    /\ ps = missing_file_profile_data("")
    /\ last = [op |-> "none", name |-> "", other |-> "", ok |-> TRUE, was_current |-> FALSE]

ServiceUnused ==
    /\ files = NoFiles
    /\ modes = NoFiles
    /\ call = [c \in Callers |-> IdleCaller]
    /\ started = 0
    /\ faults = 0

ValidatorUnused ==
    /\ raw_config = EmptyDict
    /\ validated = <<>>

MergeUnused == merged_config = <<>>

NameUnused ==
    /\ candidate_name = ""
    /\ name_accepted = <<>>

NoEnviron == [vars |-> EmptyDict, paths |-> EmptyDict, vdf |-> EmptyDict]

DetectUnused ==
    /\ environ = NoEnviron
    /\ detection = <<>>

\* what the last operation of a lifecycle run was and what it answered:
\* removed_files is <<>> for None, profiles and current_profile are those of
\* the last get_profiles
NoOutcome == [op |-> "none", name |-> "", other |-> "", success |-> TRUE, error |-> "",
              read_error |-> FALSE, removed_files |-> <<>>, profiles |-> <<>>,
              current_profile |-> "", plugin |-> FALSE, supplied |-> {}]

LifecycleUnused == outcome = NoOutcome

(***************************************************************************)
(* Codec run: generate, parse and generate again the TOML text, then       *)
(* generate and parse the launch script                                    *)
(***************************************************************************)
CodecInit ==
    /\ profile_data \in CodecInputs
    /\ toml_content = <<>>
    /\ parsed_data = <<>>
    /\ toml_again = <<>>
    /\ script_content = <<>>
    /\ script_values = <<>>
    /\ StoreUnused
    /\ ServiceUnused
    /\ ValidatorUnused
    /\ MergeUnused
    /\ NameUnused
    /\ DetectUnused
    /\ LifecycleUnused

TomlGenerate ==
    /\ toml_content = <<>>
    /\ toml_content' = generate_toml_content_multi_profile(profile_data)
    /\ UNCHANGED <<profile_data, parsed_data, toml_again, script_content, script_values,
                   storeVars, serviceVars, validatorVars, mergeVars,
                   nameVars, detectVars, lifecycleVars>>

TomlParse ==
    /\ toml_content # <<>>
    /\ parsed_data = <<>>
    /\ parsed_data' = <<parse_toml_content_multi_profile(toml_content)>>
    /\ UNCHANGED <<profile_data, toml_content, toml_again, script_content, script_values,
                   storeVars, serviceVars, validatorVars, mergeVars,
                   nameVars, detectVars, lifecycleVars>>

TomlRegenerate ==
    /\ parsed_data # <<>>
    /\ toml_again = <<>>
    /\ toml_again' = generate_toml_content_multi_profile(parsed_data[1])
    /\ UNCHANGED <<profile_data, toml_content, parsed_data, script_content, script_values,
                   storeVars, serviceVars, validatorVars, mergeVars,
                   nameVars, detectVars, lifecycleVars>>

ScriptGenerate ==
    /\ toml_again # <<>>
    /\ script_content = <<>>
    /\ script_content' = generate_script_content_for_profile(profile_data)
    /\ UNCHANGED <<profile_data, toml_content, parsed_data, toml_again, script_values,
                   storeVars, serviceVars, validatorVars, mergeVars,
                   nameVars, detectVars, lifecycleVars>>

ScriptParse ==
    /\ script_content # <<>>
    /\ script_values = <<>>
    /\ script_values' = <<parse_script_content(script_content)>>
    /\ UNCHANGED <<profile_data, toml_content, parsed_data, toml_again, script_content,
                   storeVars, serviceVars, validatorVars, mergeVars,
                   nameVars, detectVars, lifecycleVars>>

CodecNext ==
    \/ TomlGenerate
    \/ TomlParse
    \/ TomlRegenerate
    \/ ScriptGenerate
    \/ ScriptParse

SpecCodec == CodecInit /\ [][CodecNext]_vars

(***************************************************************************)
(* Validator run: validate_config applied to a mapping as the frontend     *)
(* may send it (Plugin.update_lsfg_config, Plugin.update_profile_config)   *)
(***************************************************************************)
\* the values a key of an input mapping takes
RawValues ==
    {PyStr(""), PyStr("abc"), PyStr(" 3 "), PyStr("1.5"), PyStr("false"),
     PyInt(0), PyInt(2), PyFloat(15), PyFloat(-15), PyBool(TRUE), PyBool(FALSE), PyNone}

\* a key that is no field of the schema
UnknownKey == "unknown_key"

\* the value of the field's type, as a Python value
py_value(fieldType, v) ==
    IF fieldType = "boolean" THEN PyBool(v)
    ELSE IF fieldType = "integer" THEN PyInt(v)
    ELSE IF fieldType = "float" THEN PyFloat(v)
    ELSE PyStr(v)

\* the mapping that holds every field at its default, and the empty mapping
RawBases ==
    {[f \in FieldNames |-> py_value(FieldDef(f).fieldType, get_defaults[f])], EmptyDict}

\* the input mappings: a base with at most changed keys set to any value
RawConfigs(changed) ==
    UNION {{[k \in S |-> a[k]] @@ base : a \in [S -> RawValues], base \in RawBases} :
        S \in {T \in SUBSET (FieldNames \cup {UnknownKey}) : Cardinality(T) <= changed}}

ValidateInit ==
    /\ raw_config \in RawConfigs(MaxChanged)
    /\ validated = <<>>
    /\ MergeUnused
    /\ NameUnused
    /\ DetectUnused
    /\ LifecycleUnused
    /\ CodecUnused
    /\ StoreUnused
    /\ ServiceUnused

\* Plugin.update_profile_config, plugin.py 305: the call of validate_config
Validate ==
    /\ validated = <<>>
    /\ validated' = <<validate_config(raw_config)>>
    /\ UNCHANGED <<raw_config, codecVars, storeVars, serviceVars, mergeVars,
                   nameVars, detectVars, lifecycleVars>>

ValidateNext == Validate

SpecValidate == ValidateInit /\ [][ValidateNext]_vars

(***************************************************************************)
(* Name run: validate_profile_name applied to a name                       *)
(***************************************************************************)
\* a name of the input set has at most this many characters, the names
\* listed in NamedNames apart
MaxNameChars == 2

\* the characters of the names: every character the validation looks for and
\* some it does not
NameChars == InvalidCharSet \cup {"a", "G", "-", "_", "#"}

\* the strings of at most n characters
RECURSIVE NamesUpTo(_)
NamesUpTo(n) ==
    IF n = 0 THEN {""}
    ELSE With(NamesUpTo(n - 1), LAMBDA shorter :
            shorter \cup {s \o c : s \in shorter, c \in NameChars})

\* the reserved names as the frontend may spell them, and names that only
\* resemble them
NamedNames ==
    {"global", "game", "current_profile", "Global", "GAME", "Current_Profile",
     "CURRENT_PROFILE", "gLoBaL", "globals", "games", "current", "profile", "my-game_01",
     "decky-lsfg-vk", "exe"}

NameInputs(n) == NamesUpTo(n) \cup NamedNames

NameInit ==
    /\ candidate_name \in NameInputs(MaxNameChars)
    /\ name_accepted = <<>>
    /\ CodecUnused
    /\ StoreUnused
    /\ ServiceUnused
    /\ ValidatorUnused
    /\ MergeUnused
    /\ DetectUnused
    /\ LifecycleUnused

ValidateName ==
    /\ name_accepted = <<>>
    /\ name_accepted' = <<validate_profile_name(candidate_name)>>
    /\ UNCHANGED <<candidate_name, codecVars, storeVars, serviceVars, validatorVars, mergeVars,
                   detectVars, lifecycleVars>>

NameNext == ValidateName

SpecName == NameInit /\ [][NameNext]_vars

(***************************************************************************)
(* Detection run: check_lossless_scaling_dll in an environment             *)
(***************************************************************************)
\* a libraryfolders.vdf of the input set holds at most this many "path" entries
MaxLibraries == 2

XdgSteam == "/xdg/Steam"
HomeSteam == "/home/deck/.local/share/Steam"
vdf_of(steam_path) == path_join(steam_path, "steamapps/libraryfolders.vdf")

\* what may be found at a Steam directory: nothing, the directory alone, with
\* the DLL, with a libraryfolders.vdf, with one that cannot be opened, a DLL
\* that cannot be looked at, a directory that cannot be looked at
SteamDirs(steam_path) ==
    {EmptyDict,
     steam_path :> "present",
     (steam_path :> "present") @@ (dll_in(steam_path) :> "present"),
     (steam_path :> "present") @@ (vdf_of(steam_path) :> "present"),
     (steam_path :> "present") @@ (vdf_of(steam_path) :> "unreadable"),
     (steam_path :> "present") @@ (dll_in(steam_path) :> "raises"),
     (steam_path :> "raises") @@ (dll_in(steam_path) :> "raises")}

\* a library folder: absent, without steamapps, without the DLL, with the
\* DLL, or one that cannot be looked at
Libraries(library_path) ==
    {EmptyDict,
     library_path :> "present",
     (library_path :> "present") @@ (path_join(library_path, "steamapps") :> "present"),
     (library_path :> "present") @@ (path_join(library_path, "steamapps") :> "present")
        @@ (dll_in(library_path) :> "present"),
     library_path :> "raises"}

\* LSFG_DLL_PATH and the file it may name: unset or blank beside an existing
\* file, and set (with blanks and slashes that Path() drops) to a file that
\* is missing, exists or cannot be looked at
Overrides ==
    {[vars |-> EmptyDict, paths |-> "/opt/Lossless.dll" :> "present"],
     [vars |-> ENV_LSFG_DLL_PATH :> "  ", paths |-> "/opt/Lossless.dll" :> "present"],
     [vars |-> ENV_LSFG_DLL_PATH :> " /opt//Lossless.dll ", paths |-> EmptyDict],
     [vars |-> ENV_LSFG_DLL_PATH :> " /opt//Lossless.dll ",
      paths |-> "/opt/Lossless.dll" :> "present"],
     [vars |-> ENV_LSFG_DLL_PATH :> " /opt//Lossless.dll ",
      paths |-> "/opt/Lossless.dll" :> "raises"]}

\* XDG_DATA_HOME and HOME: unset, or set
DataDirs ==
    {xdg @@ home :
        xdg \in {EmptyDict, ENV_XDG_DATA_HOME :> "/xdg/"},
        home \in {EmptyDict, ENV_HOME :> "/home/deck"}}

\* the "path" entries of a libraryfolders.vdf, one of them written with
\* backslashes
VdfEntries == {"/run/media/sd", "\\mnt\\\\games"}

VdfContents(n) == UNION {[1..k -> VdfEntries] : k \in 0..n}

DetectEnvirons(n) ==
    {[vars |-> o.vars @@ v, paths |-> o.paths @@ x @@ h @@ sd @@ g,
      vdf |-> (vdf_of(XdgSteam) :> c) @@ (vdf_of(HomeSteam) :> c)] :
        v \in DataDirs, o \in Overrides, x \in SteamDirs(XdgSteam),
        h \in SteamDirs(HomeSteam) \ {(HomeSteam :> "present") @@ (dll_in(HomeSteam) :> "raises"),
                                      (HomeSteam :> "present")
                                        @@ (vdf_of(HomeSteam) :> "unreadable")},
        sd \in Libraries("/run/media/sd"),
        g \in {EmptyDict, ("/mnt/games" :> "present") @@ ("/mnt/games/steamapps" :> "present")
                            @@ (dll_in("/mnt/games") :> "present")},
        c \in VdfContents(n)}

DetectInit ==
    /\ environ \in DetectEnvirons(MaxLibraries)
    /\ detection = <<>>
    /\ CodecUnused
    /\ StoreUnused
    /\ ServiceUnused
    /\ ValidatorUnused
    /\ MergeUnused
    /\ NameUnused
    /\ LifecycleUnused

Detect ==
    /\ detection = <<>>
    /\ detection' = <<check_lossless_scaling_dll(environ)>>
    /\ UNCHANGED <<environ, codecVars, storeVars, serviceVars, validatorVars, mergeVars,
                   nameVars, lifecycleVars>>

DetectNext == Detect

SpecDetect == DetectInit /\ [][DetectNext]_vars

(***************************************************************************)
(* Profile store run: create, delete, rename and set-current applied to a  *)
(* ProfileSet that parse or the missing-file branch produced               *)
(***************************************************************************)
\* the lines the input texts are made of
TextLines ==
    {"", "[global]", "[[game]]", "[other]",
     "exe = \"feral\"", "exe = \"decky-lsfg-vk\"",
     "current_profile = \"feral\"", "current_profile = \"ghost\"",
     "multiplier = 3"}

\* every text of 1..MaxLines lines drawn from lines
Texts(lines) == UNION {[1..n -> lines] : n \in 1..MaxLines}

\* what check_lossless_scaling_dll reports: no path, or the path it found
DetectedDlls == {"", "/run/media/Lossless.dll"}

\* the names the store operations are called with: the default, fresh and
\* existing valid names, and names validate_profile_name rejects
StoreNames == {DEFAULT_PROFILE_NAME, "feral", "game2", "bad name", "Global"}

\* the ProfileSets a store call starts from: what parse returns for the
\* texts made of lines, and what a missing file gives
StoreInputs(lines) ==
    {parse_toml_content_multi_profile(t) : t \in Texts(lines)}
    \cup {missing_file_profile_data(d) : d \in DetectedDlls}

StoreInit ==
    /\ ps \in StoreInputs(TextLines)
    /\ last = [op |-> "none", name |-> "", other |-> "", ok |-> TRUE, was_current |-> FALSE]
    /\ CodecUnused
    /\ ServiceUnused
    /\ ValidatorUnused
    /\ MergeUnused
    /\ NameUnused
    /\ DetectUnused
    /\ LifecycleUnused

\* what a store call leaves behind: the new ProfileSet when the call returns,
\* the old one when it raises
StoreResult(r) == IF r.ok THEN r.pd ELSE ps

StoreCreate ==
    \E name \in StoreNames, source \in {"", "feral"} :
        \E r \in {create_profile(ps, name, source)} :
            /\ ps' = StoreResult(r)
            /\ last' = [op |-> "create", name |-> name, other |-> source, ok |-> r.ok,
                        was_current |-> (ps.current_profile = name)]
            /\ UNCHANGED <<codecVars, serviceVars, validatorVars, mergeVars,
                   nameVars, detectVars, lifecycleVars>>

StoreDelete ==
    \E name \in StoreNames :
        \E r \in {delete_profile(ps, name)} :
            /\ ps' = StoreResult(r)
            /\ last' = [op |-> "delete", name |-> name, other |-> "", ok |-> r.ok,
                        was_current |-> (ps.current_profile = name)]
            /\ UNCHANGED <<codecVars, serviceVars, validatorVars, mergeVars,
                   nameVars, detectVars, lifecycleVars>>

StoreRename ==
    \E old_name \in StoreNames, new_name \in StoreNames :
        \E r \in {rename_profile(ps, old_name, new_name)} :
            /\ ps' = StoreResult(r)
            /\ last' = [op |-> "rename", name |-> old_name, other |-> new_name, ok |-> r.ok,
                        was_current |-> (ps.current_profile = old_name)]
            /\ UNCHANGED <<codecVars, serviceVars, validatorVars, mergeVars,
                   nameVars, detectVars, lifecycleVars>>

StoreSetCurrent ==
    \E name \in StoreNames :
        \E r \in {set_current_profile(ps, name)} :
            /\ ps' = StoreResult(r)
            /\ last' = [op |-> "set_current", name |-> name, other |-> "", ok |-> r.ok,
                        was_current |-> (ps.current_profile = name)]
            /\ UNCHANGED <<codecVars, serviceVars, validatorVars, mergeVars,
                   nameVars, detectVars, lifecycleVars>>

StoreNext ==
    \/ StoreCreate
    \/ StoreDelete
    \/ StoreRename
    \/ StoreSetCurrent

SpecStore == StoreInit /\ [][StoreNext]_vars

(***************************************************************************)
(* Merge run: the effective configuration of the current profile, as       *)
(* parse_toml_content and _generate_script_content_for_profile compute it  *)
(***************************************************************************)
\* the ProfileSets handed to the merge: those of the codec run, and the same
\* with a current_profile that is no key of profiles, the case that the
\* .get(current_profile, get_defaults()) of both functions provides for
MergeInputs ==
    CodecInputs \cup {[pd EXCEPT !.current_profile = "ghost"] : pd \in CodecInputs}

MergeInit ==
    /\ profile_data \in MergeInputs
    /\ toml_content = <<>>
    /\ parsed_data = <<>>
    /\ toml_again = <<>>
    /\ script_content = <<>>
    /\ script_values = <<>>
    /\ StoreUnused
    /\ ServiceUnused
    /\ ValidatorUnused
    /\ merged_config = <<>>
    /\ NameUnused
    /\ DetectUnused
    /\ LifecycleUnused

\* config_schema.py 252-262 and configuration.py 225-232
Merge ==
    /\ merged_config = <<>>
    /\ merged_config' =
            <<[toml |-> merge_global_fields(current_config_of(profile_data),
                                           profile_data.global_config),
               script |-> script_merged_config(profile_data)]>>
    /\ UNCHANGED <<codecVars, storeVars, serviceVars, validatorVars,
                   nameVars, detectVars, lifecycleVars>>

MergeNext == Merge

SpecMerge == MergeInit /\ [][MergeNext]_vars

(***************************************************************************)
(* Parser run: parse_toml_content_multi_profile applied to a text          *)
(***************************************************************************)
\* one [[game]] block and no [global] section
ScenarioBText ==
    <<"[[game]]", "exe = \"feral\"", "multiplier = 3", "flow_scale = 1.2">>

\* the lines the parser's input texts are made of: headers, a profile name,
\* a current profile, a value that does not convert, a float and a comment
ParserLines ==
    {"[global]", "[[game]]", "exe = \"feral\"", "current_profile = \"feral\"",
     "multiplier = x", "flow_scale = 1.2", "# multiplier = 3"}

\* the texts handed to the parser
ParserInputs(lines) == Texts(lines) \cup {ScenarioBText}

TextInit ==
    /\ toml_content \in ParserInputs(ParserLines)
    /\ profile_data = missing_file_profile_data("")
    /\ parsed_data = <<>>
    /\ toml_again = <<>>
    /\ script_content = <<>>
    /\ script_values = <<>>
    /\ StoreUnused
    /\ ServiceUnused
    /\ ValidatorUnused
    /\ MergeUnused
    /\ NameUnused
    /\ DetectUnused
    /\ LifecycleUnused

ParseNext == TomlParse

SpecParse == TextInit /\ [][ParseNext]_vars

(***************************************************************************)
(* Service run: the steps of a handler.  A handler loads and decides in    *)
(* one step (it reads the config file once), then writes the config file   *)
(* and the launch script through the steps of the atomic write, and        *)
(* returns its response.                                                   *)
(***************************************************************************)
\* at most this many calls are begun in a run
MaxOps == 2

\* at most this many writes fail in a run
MaxFaults == 1

WriteSteps == {"open", "write", "close", "chmod", "replace"}

\* self._write_file(path, content, mode): the caller enters the atomic write of
\* content to path, having seen the text the path held
write_file(r, path, content) ==
    [r EXCEPT !.pc = "open", !.target = path, !.content = content, !.temp_path = "",
              !.previous = file_content(files, path)]

\* the handler is left with this response
Finish(r, response) ==
    [r EXCEPT !.pc = "done", !.target = "", !.content = <<>>, !.temp_path = "",
              !.previous = <<>>, !.response = response]

\* a call begins: the marks of the caller's last call are cleared
Begun(r, req, read_error) ==
    [r EXCEPT !.req = req, !.failed = "", !.read_error = read_error]

\* a mutating handler up to its first write: _get_profile_data, the change,
\* and generate_toml_content_multi_profile of _save_profile_data.  os_error is
\* the OSError the read of the config file may raise, which the handler turns
\* into an error response.
BeginCall(c, req, detected, os_error) ==
    /\ call[c].pc = "idle"
    /\ started < MaxOps
    /\ IF os_error /\ exists(files, ConfigPath)
       THEN call' = [call EXCEPT ![c] =
                Finish(Begun(@, req, TRUE),
                       error_response("[Errno 13] Permission denied", NoConfig, ""))]
       ELSE \E h \in {Handle(req, get_profile_data(files, detected))} :
            \E r \in {Begun(call[c], req, FALSE)} :
                call' = [call EXCEPT ![c] =
                    IF h.ok
                    THEN write_file([r EXCEPT !.pd = h.pd, !.script = h.script,
                                              !.response = h.response],
                                    ConfigPath, generate_toml_content_multi_profile(h.pd))
                    ELSE Finish(r, h.response)]
    /\ started' = started + 1
    /\ UNCHANGED <<files, modes, faults>>

\* get_config, which writes nothing
BeginGetConfig(c, detected, os_error) ==
    /\ call[c].pc = "idle"
    /\ started < MaxOps
    /\ call' = [call EXCEPT ![c] =
            Finish(Begun(@, Call("get_config", "", "", get_defaults),
                         os_error /\ exists(files, ConfigPath)),
                   get_config(files, detected, os_error))]
    /\ started' = started + 1
    /\ UNCHANGED <<files, modes, faults>>

\* base_service.py 82-88: the temporary file is created, empty, mode 600
AwOpen(c) ==
    /\ call[c].pc = "open"
    /\ \E temp_path \in {temp_name(call[c].target, files)} :
           /\ files' = file_put(files, temp_path, EmptyFile)
           /\ modes' = file_put(modes, temp_path, "600")
           /\ call' = [call EXCEPT ![c].pc = "write", ![c].temp_path = temp_path]
    /\ UNCHANGED <<started, faults>>

\* base_service.py 89: temp_file.write(content), the part that reaches the
\* file before the file is closed
AwWrite(c) ==
    /\ call[c].pc = "write"
    /\ files' = file_put(files, call[c].temp_path, partial_content(call[c].content))
    /\ call' = [call EXCEPT ![c].pc = "close"]
    /\ UNCHANGED <<modes, started, faults>>

\* base_service.py 88-90: leaving the with block closes the file, which
\* flushes the rest
AwClose(c) ==
    /\ call[c].pc = "close"
    /\ files' = file_put(files, call[c].temp_path, call[c].content)
    /\ call' = [call EXCEPT ![c].pc = "chmod"]
    /\ UNCHANGED <<modes, started, faults>>

\* base_service.py 93: temp_path.chmod(mode)
AwChmod(c) ==
    /\ call[c].pc = "chmod"
    /\ modes' = file_put(modes, call[c].temp_path, write_file_mode(call[c].target))
    /\ call' = [call EXCEPT ![c].pc = "replace"]
    /\ UNCHANGED <<files, started, faults>>

\* the callers that loaded the config file and have not replaced it yet; a
\* replace by another caller marks them overlapped, and the mark stays
Loaded(c) == call[c].pc \in WriteSteps /\ call[c].target = ConfigPath

\* base_service.py 96: temp_path.replace(path), and what the handler does
\* next: after the config file the launch script where the handler rewrites
\* it (update_lsfg_script_from_profile_data), else the response
AwReplace(c) ==
    /\ call[c].pc = "replace"
    /\ files' = file_replace(files, call[c].temp_path, call[c].target)
    /\ modes' = file_replace(modes, call[c].temp_path, call[c].target)
    /\ call' = [d \in Callers |->
            IF d = c
            THEN IF call[c].target = ConfigPath /\ call[c].script
                 THEN write_file(call[c], ScriptPath,
                                 generate_script_content_for_profile(call[c].pd))
                 ELSE Finish(call[c], call[c].response)
            ELSE IF call[c].target = ConfigPath /\ Loaded(d)
                 THEN [call[d] EXCEPT !.overlapped = TRUE]
                 ELSE call[d]]
    /\ UNCHANGED <<started, faults>>

\* A step of _atomic_write raises.  The temporary file stays when the write
\* raised (temp_path is assigned after it, line 90) and is unlinked when the
\* close, the chmod or the replace raised (lines 99-106).  A failed write of
\* the config file ends the handler with an error response; a failed write of
\* the launch script is logged by the handler, which returns its success
\* response.
AwFail(c, write_raised) ==
    /\ call[c].pc \in WriteSteps
    /\ faults < MaxFaults
    /\ write_raised => call[c].pc \in {"write", "close"}
    /\ call[c].pc = "write" => write_raised
    /\ \E unlinked \in {call[c].pc # "open" /\ ~write_raised} :
           /\ files' = IF unlinked THEN file_unlink(files, call[c].temp_path) ELSE files
           /\ modes' = IF unlinked THEN file_unlink(modes, call[c].temp_path) ELSE modes
    /\ call' = [call EXCEPT ![c] =
            Finish([@ EXCEPT !.failed = call[c].target],
                   IF call[c].target = ConfigPath
                   THEN error_response("[Errno 28] No space left on device", NoConfig, "")
                   ELSE call[c].response)]
    /\ faults' = faults + 1
    /\ UNCHANGED started

\* the response reaches the caller
Return(c) ==
    /\ call[c].pc = "done"
    /\ call' = [call EXCEPT ![c].pc = "idle",
                            ![c].before = [req |-> call[c].req,
                                           success |-> call[c].response.success]]
    /\ UNCHANGED <<files, modes, started, faults>>

(***************************************************************************)
(* One caller at a time: every handler, with writes that may fail          *)
(***************************************************************************)
\* the configurations the update handlers are called with: one that changes
\* fields of every kind, and one with an empty string
ServiceConfigs ==
    {[get_defaults EXCEPT !["dll"] = "/opt/Lossless.dll", !["multiplier"] = 3,
                          !["flow_scale"] = 5, !["hdr_mode"] = TRUE,
                          !["dxvk_frame_rate"] = 45, !["disable_steamdeck_mode"] = TRUE],
     [get_defaults EXCEPT !["experimental_present_mode"] = "", !["multiplier"] = 2]}

ServiceCalls ==
    {Call("create_profile", "feral", "", get_defaults),
     Call("delete_profile", "feral", "", get_defaults),
     Call("rename_profile", "feral", "game2", get_defaults),
     Call("set_current_profile", "feral", "", get_defaults),
     Call("set_current_profile", DEFAULT_PROFILE_NAME, "", get_defaults),
     Call("update_dll_path", "/opt/Lossless.dll", "", get_defaults)}
    \cup {Call("update_config", "", "", config) : config \in ServiceConfigs}
    \cup {Call("update_profile_config", "feral", "", config) : config \in ServiceConfigs}

\* a config file and a launch script the service has written: two profiles,
\* the second one current
InstalledProfileData ==
    ProfileData("feral",
                profiles_set(profiles_set(NoProfiles, DEFAULT_PROFILE_NAME, get_defaults),
                             "feral", [get_defaults EXCEPT !["frame_pacing_target_ms"] = 16]),
                ("dll" :> "/run/media/Lossless.dll") @@ ("no_fp16" :> FALSE))

InstalledFiles ==
    (ConfigPath :> generate_toml_content_multi_profile(InstalledProfileData))
        @@ (ScriptPath :> generate_script_content_for_profile(InstalledProfileData))

InstalledModes == (ConfigPath :> "644") @@ (ScriptPath :> "755")

\* the service starts on a fresh system or on an installed one
ServiceStart ==
    /\ \/ files = NoFiles /\ modes = NoFiles
       \/ files = InstalledFiles /\ modes = InstalledModes
    /\ call = [c \in Callers |-> IdleCaller]
    /\ started = 0
    /\ faults = 0

ServiceInit ==
    /\ ServiceStart
    /\ CodecUnused
    /\ StoreUnused
    /\ ValidatorUnused
    /\ MergeUnused
    /\ NameUnused
    /\ DetectUnused
    /\ LifecycleUnused

\* what check_lossless_scaling_dll may report to a handler: it is asked only
\* when the config file does not exist
Detectable == IF exists(files, ConfigPath) THEN {""} ELSE DetectedDlls

SvcCall ==
    /\ \E req \in ServiceCalls, detected \in Detectable, os_error \in BOOLEAN :
            BeginCall(1, req, detected, os_error)
    /\ UNCHANGED <<codecVars, storeVars, validatorVars, mergeVars,
                   nameVars, detectVars, lifecycleVars>>

SvcGetConfig ==
    /\ \E detected \in Detectable, os_error \in BOOLEAN : BeginGetConfig(1, detected, os_error)
    /\ UNCHANGED <<codecVars, storeVars, validatorVars, mergeVars,
                   nameVars, detectVars, lifecycleVars>>

SvcOpen == AwOpen(1) /\ UNCHANGED <<codecVars, storeVars, validatorVars, mergeVars,
                   nameVars, detectVars, lifecycleVars>>

SvcWrite == AwWrite(1) /\ UNCHANGED <<codecVars, storeVars, validatorVars, mergeVars,
                   nameVars, detectVars, lifecycleVars>>

SvcClose == AwClose(1) /\ UNCHANGED <<codecVars, storeVars, validatorVars, mergeVars,
                   nameVars, detectVars, lifecycleVars>>

SvcChmod == AwChmod(1) /\ UNCHANGED <<codecVars, storeVars, validatorVars, mergeVars,
                   nameVars, detectVars, lifecycleVars>>

SvcReplace == AwReplace(1) /\ UNCHANGED <<codecVars, storeVars, validatorVars, mergeVars,
                   nameVars, detectVars, lifecycleVars>>

SvcFail ==
    /\ \E write_raised \in BOOLEAN : AwFail(1, write_raised)
    /\ UNCHANGED <<codecVars, storeVars, validatorVars, mergeVars,
                   nameVars, detectVars, lifecycleVars>>

SvcReturn == Return(1) /\ UNCHANGED <<codecVars, storeVars, validatorVars, mergeVars,
                   nameVars, detectVars, lifecycleVars>>

ServiceNext ==
    \/ SvcCall
    \/ SvcGetConfig
    \/ SvcOpen
    \/ SvcWrite
    \/ SvcClose
    \/ SvcChmod
    \/ SvcReplace
    \/ SvcFail
    \/ SvcReturn

SpecService == ServiceInit /\ [][ServiceNext]_vars

(***************************************************************************)
(* Two callers at a time: handlers that overlap, with writes that succeed  *)
(***************************************************************************)
RaceCalls ==
    {Call("create_profile", "feral", "", get_defaults),
     Call("create_profile", "game2", "", get_defaults),
     Call("set_current_profile", DEFAULT_PROFILE_NAME, "", get_defaults)}

RaceCall ==
    /\ \E c \in Callers, req \in RaceCalls, detected \in Detectable :
            BeginCall(c, req, detected, FALSE)
    /\ UNCHANGED <<codecVars, storeVars, validatorVars, mergeVars,
                   nameVars, detectVars, lifecycleVars>>

RaceOpen == (\E c \in Callers : AwOpen(c)) /\ UNCHANGED <<codecVars, storeVars, validatorVars, mergeVars,
                   nameVars, detectVars, lifecycleVars>>

RaceWrite == (\E c \in Callers : AwWrite(c)) /\ UNCHANGED <<codecVars, storeVars, validatorVars, mergeVars,
                   nameVars, detectVars, lifecycleVars>>

RaceClose == (\E c \in Callers : AwClose(c)) /\ UNCHANGED <<codecVars, storeVars, validatorVars, mergeVars,
                   nameVars, detectVars, lifecycleVars>>

RaceChmod == (\E c \in Callers : AwChmod(c)) /\ UNCHANGED <<codecVars, storeVars, validatorVars, mergeVars,
                   nameVars, detectVars, lifecycleVars>>

RaceReplace == (\E c \in Callers : AwReplace(c)) /\ UNCHANGED <<codecVars, storeVars, validatorVars, mergeVars,
                   nameVars, detectVars, lifecycleVars>>

RaceReturn == (\E c \in Callers : Return(c)) /\ UNCHANGED <<codecVars, storeVars, validatorVars, mergeVars,
                   nameVars, detectVars, lifecycleVars>>

RaceNext ==
    \/ RaceCall
    \/ RaceOpen
    \/ RaceWrite
    \/ RaceClose
    \/ RaceChmod
    \/ RaceReplace
    \/ RaceReturn

SpecRace == ServiceInit /\ [][RaceNext]_vars

(***************************************************************************)
(* One caller at a time, a few handlers: the writes step by step, with     *)
(* failures                                                                *)
(***************************************************************************)
WriteCalls ==
    {Call("create_profile", "feral", "", get_defaults),
     Call("set_current_profile", DEFAULT_PROFILE_NAME, "", get_defaults),
     Call("update_dll_path", "/opt/Lossless.dll", "", get_defaults)}

WriteCall ==
    /\ \E req \in WriteCalls, detected \in Detectable : BeginCall(1, req, detected, FALSE)
    /\ UNCHANGED <<codecVars, storeVars, validatorVars, mergeVars,
                   nameVars, detectVars, lifecycleVars>>

WriteOpen == AwOpen(1) /\ UNCHANGED <<codecVars, storeVars, validatorVars, mergeVars,
                   nameVars, detectVars, lifecycleVars>>

WriteWrite == AwWrite(1) /\ UNCHANGED <<codecVars, storeVars, validatorVars, mergeVars,
                   nameVars, detectVars, lifecycleVars>>

WriteClose == AwClose(1) /\ UNCHANGED <<codecVars, storeVars, validatorVars, mergeVars,
                   nameVars, detectVars, lifecycleVars>>

WriteChmod == AwChmod(1) /\ UNCHANGED <<codecVars, storeVars, validatorVars, mergeVars,
                   nameVars, detectVars, lifecycleVars>>

WriteReplace == AwReplace(1) /\ UNCHANGED <<codecVars, storeVars, validatorVars, mergeVars,
                   nameVars, detectVars, lifecycleVars>>

WriteFail ==
    /\ \E write_raised \in BOOLEAN : AwFail(1, write_raised)
    /\ UNCHANGED <<codecVars, storeVars, validatorVars, mergeVars,
                   nameVars, detectVars, lifecycleVars>>

WriteReturn == Return(1) /\ UNCHANGED <<codecVars, storeVars, validatorVars, mergeVars,
                   nameVars, detectVars, lifecycleVars>>

WriteNext ==
    \/ WriteCall
    \/ WriteOpen
    \/ WriteWrite
    \/ WriteClose
    \/ WriteChmod
    \/ WriteReplace
    \/ WriteFail
    \/ WriteReturn

SpecWrite == ServiceInit /\ [][WriteNext]_vars

(***************************************************************************)
(* Reads: get_config on a config file that is missing, valid, cut short or *)
(* no TOML at all, and a launch script that is missing or cut short        *)
(***************************************************************************)
GarbageText == <<"{not toml", "]]][[ = = =", "exe", "=">>

\* a [[game]] block without exe and values that are no numbers or booleans
BadValuesText ==
    <<"[[game]]", "multiplier = many", "flow_scale = 1.2.3", "hdr_mode = perhaps",
      "[[game]]", "exe = \"decky-lsfg-vk\"", "multiplier = ", "dxvk_frame_rate = -",
      "flow_scale = .">>

\* a global section that names a profile the file does not hold
GhostProfileText ==
    <<"[global]", "current_profile = \"ghost\"", "dll = ", "no_fp16 = 2",
      "[[game]]", "exe = \"feral\"", "performance_mode = off">>

\* the config files get_config is run on; <<>> is the missing file
ReadConfigs ==
    {<<>>, EmptyFile, GarbageText, BadValuesText, GhostProfileText,
     InstalledFiles[ConfigPath], partial_content(InstalledFiles[ConfigPath])}

\* a profile that exports every script-location field
ExportingProfileData ==
    ProfileData(DEFAULT_PROFILE_NAME,
                profiles_set(NoProfiles, DEFAULT_PROFILE_NAME,
                    [f \in FieldNames |->
                        IF f \in SCRIPT_ONLY_FIELDS THEN Alternatives(f)[1]
                        ELSE get_defaults[f]]),
                EmptyDict)

ValidScript == generate_script_content_for_profile(ExportingProfileData)

\* every prefix of a text, cut at any character
Prefixes(text) ==
    UNION {{SubSeq(text, 1, i - 1) \o <<SubSeq(text[i], 1, j)>> : j \in 0..Len(text[i])} :
                i \in 1..Len(text)}

\* the launch scripts get_config is run on; <<>> is the missing script
ReadScripts == {<<>>} \cup Prefixes(ValidScript)

\* the files that hold the given texts
FilesOf(config, script) ==
    [q \in (IF config = <<>> THEN {} ELSE {ConfigPath})
            \cup (IF script = <<>> THEN {} ELSE {ScriptPath}) |->
        IF q = ConfigPath THEN config ELSE script]

ReadInit ==
    /\ \E config \in ReadConfigs, script \in ReadScripts :
            /\ files = FilesOf(config, script)
            /\ modes = [q \in DOMAIN FilesOf(config, script) |-> write_file_mode(q)]
    /\ call = [c \in Callers |-> IdleCaller]
    /\ started = 0
    /\ faults = 0
    /\ CodecUnused
    /\ StoreUnused
    /\ ValidatorUnused
    /\ MergeUnused
    /\ NameUnused
    /\ DetectUnused
    /\ LifecycleUnused

\* one read in a run
ReadGetConfig ==
    /\ started = 0
    /\ \E detected \in Detectable, os_error \in BOOLEAN : BeginGetConfig(1, detected, os_error)
    /\ UNCHANGED <<codecVars, storeVars, validatorVars, mergeVars,
                   nameVars, detectVars, lifecycleVars>>

ReadReturn == Return(1) /\ UNCHANGED <<codecVars, storeVars, validatorVars, mergeVars,
                   nameVars, detectVars, lifecycleVars>>

ReadNext ==
    \/ ReadGetConfig
    \/ ReadReturn

SpecRead == ReadInit /\ [][ReadNext]_vars

(***************************************************************************)
(* Overlay run: get_config on a config file and a launch script whose      *)
(* lines are known                                                         *)
(***************************************************************************)
\* the longest launch script of the overlay run, in lines
MaxScriptLines == 3

\* the lines of the launch scripts, each with the script-location field it
\* sets and the value it gives the field; field "" marks a line that sets
\* no field: a commented-out export, an export whose value is no number, an
\* export of a variable that is no script-location field
ScriptLineTable ==
    <<[line |-> "export DXVK_FRAME_RATE=45", field |-> "dxvk_frame_rate", value |-> PyInt(45)],
      [line |-> "# export PROTON_USE_WOW64=1", field |-> "", value |-> PyNone],
      [line |-> "export PROTON_USE_WOW64=1", field |-> "enable_wow64", value |-> PyBool(TRUE)],
      [line |-> "  export PROTON_USE_WOW64 = 0 ", field |-> "enable_wow64",
       value |-> PyBool(FALSE)],
      [line |-> "export SteamDeck=0", field |-> "disable_steamdeck_mode",
       value |-> PyBool(TRUE)],
      [line |-> "export DXVK_FRAME_RATE=fast", field |-> "", value |-> PyNone],
      [line |-> "export MULTIPLIER=4", field |-> "", value |-> PyNone]>>

ScriptLines == {ScriptLineTable[i].line : i \in 1..Len(ScriptLineTable)}

\* every script of at most n lines; <<>> is the missing script
OverlayScripts(n) == UNION {[1..k -> ScriptLines] : k \in 0..n}

\* a ProfileSet whose current profile holds TOML and script-location fields
\* that differ from the defaults
OverlayProfileData ==
    ProfileData(DEFAULT_PROFILE_NAME,
                profiles_set(NoProfiles, DEFAULT_PROFILE_NAME,
                    [get_defaults EXCEPT !["multiplier"] = 3, !["dxvk_frame_rate"] = 30,
                                         !["enable_wow64"] = TRUE]),
                ("dll" :> "/opt/Lossless.dll") @@ ("no_fp16" :> TRUE))

\* the config files of the overlay run: none, and the file of OverlayProfileData
OverlayConfigs == {<<>>, generate_toml_content_multi_profile(OverlayProfileData)}

OverlayInit ==
    /\ \E config \in OverlayConfigs, script \in OverlayScripts(MaxScriptLines) :
            /\ files = FilesOf(config, script)
            /\ modes = [q \in DOMAIN FilesOf(config, script) |-> write_file_mode(q)]
    /\ call = [c \in Callers |-> IdleCaller]
    /\ started = 0
    /\ faults = 0
    /\ CodecUnused
    /\ StoreUnused
    /\ ValidatorUnused
    /\ MergeUnused
    /\ NameUnused
    /\ DetectUnused
    /\ LifecycleUnused

\* one read in a run, with no OSError
OverlayGetConfig ==
    /\ started = 0
    /\ \E detected \in Detectable : BeginGetConfig(1, detected, FALSE)
    /\ UNCHANGED <<codecVars, storeVars, validatorVars, mergeVars,
                   nameVars, detectVars, lifecycleVars>>

OverlayReturn == Return(1) /\ UNCHANGED <<codecVars, storeVars, validatorVars, mergeVars,
                   nameVars, detectVars, lifecycleVars>>

OverlayNext ==
    \/ OverlayGetConfig
    \/ OverlayReturn

SpecOverlay == OverlayInit /\ [][OverlayNext]_vars

(***************************************************************************)
(* Lifecycle run: install, uninstall and the handlers of the service, one  *)
(* call after the other, every write succeeding.  A handler is one step:   *)
(* its writes replace the files atomically and nothing runs beside it.     *)
(***************************************************************************)
\* at most this many calls are made in a run
MaxSteps == 2

\* the answer of a call
Outcome(op, name, other, success, error) ==
    [NoOutcome EXCEPT !.op = op, !.name = name, !.other = other, !.success = success,
                      !.error = error]

\* the calls of the profile handlers: with a valid name (feral exists on the
\* installed system and is missing on the fresh one), with an invalid one,
\* and with the default profile
LifecycleCalls ==
    {Call("create_profile", n, "", get_defaults) : n \in {"feral", "bad name"}}
    \cup {Call("delete_profile", n, "", get_defaults) : n \in {"feral", DEFAULT_PROFILE_NAME}}
    \cup {Call("rename_profile", "feral", n, get_defaults) :
            n \in {"game2", "bad name", DEFAULT_PROFILE_NAME}}
    \cup {Call("rename_profile", DEFAULT_PROFILE_NAME, "game2", get_defaults)}
    \cup {Call("set_current_profile", n, "", get_defaults) :
            n \in {"feral", DEFAULT_PROFILE_NAME}}
    \cup {Call("update_profile_config", "feral", "",
                [get_defaults EXCEPT !["multiplier"] = 3])}
    \cup {Call("update_dll_path", "/opt/Lossless.dll", "", get_defaults)}

\* the mappings the frontend sends to the plugin: every field but dll, every
\* field, and a value that cannot be converted
PluginConfigs ==
    With([f \in FieldNames |->
            py_value(FieldDef(f).fieldType,
                     [get_defaults EXCEPT !["multiplier"] = 4, !["dll"] = "/opt/Lossless.dll"][f])],
         LAMBDA full :
        {full, [f \in FieldNames \ {"dll"} |-> full[f]],
         [full EXCEPT !["multiplier"] = PyStr("abc")]})

\* a config file written by hand: no [global] section, one profile, its
\* present mode left empty
HandWrittenConfig ==
    <<"[[game]]", "exe = \"feral\"", "multiplier = 3",
      "experimental_present_mode = \"\"">>

\* the run starts on a fresh system, on an installed one with two profiles,
\* or beside a config file written by hand
LifecycleStart ==
    \/ files = NoFiles /\ modes = NoFiles
    \/ /\ files = (LibPath :> LibContent) @@ (JsonPath :> JsonContent) @@ InstalledFiles
       /\ modes = (LibPath :> "755") @@ (JsonPath :> "644") @@ InstalledModes
    \/ /\ files = (ConfigPath :> HandWrittenConfig)
       /\ modes = (ConfigPath :> "644")

LifecycleInit ==
    /\ LifecycleStart
    /\ call = [c \in Callers |-> IdleCaller]
    /\ started = 0
    /\ faults = 0
    /\ outcome = NoOutcome
    /\ CodecUnused
    /\ StoreUnused
    /\ ValidatorUnused
    /\ MergeUnused
    /\ NameUnused
    /\ DetectUnused

\* the files and modes after the handler has persisted what it decided
persisted_files(fs, h) ==
    IF ~h.ok THEN fs
    ELSE With(file_put(fs, ConfigPath, generate_toml_content_multi_profile(h.pd)),
              LAMBDA saved :
            IF h.script
            THEN file_put(saved, ScriptPath, generate_script_content_for_profile(h.pd))
            ELSE saved)

persisted_modes(ms, h) ==
    IF ~h.ok THEN ms
    ELSE With(file_put(ms, ConfigPath, write_file_mode(ConfigPath)), LAMBDA saved :
            IF h.script THEN file_put(saved, ScriptPath, write_file_mode(ScriptPath))
            ELSE saved)

\* a handler of ConfigurationService, from the ProfileSet it loaded to its
\* response
Handled(req, loaded) ==
    /\ \E h \in {Handle(req, loaded)} :
           /\ files' = persisted_files(files, h)
           /\ modes' = persisted_modes(modes, h)
           /\ outcome' = Outcome(req.op, req.name, req.other, h.response.success,
                                 h.response.error)
    /\ started' = started + 1
    /\ UNCHANGED <<call, faults>>

\* the path whose removal raises, "" for none: a path that does not exist is
\* not removed
RemovalFailures(fs) == {""} \cup {q \in {LibPath, JsonPath, LaunchScriptPath} : exists(fs, q)}

LcCall ==
    /\ started < MaxSteps
    /\ \E detected \in Detectable :
        \E loaded \in {get_profile_data(files, detected)} :
            \E req \in LifecycleCalls : Handled(req, loaded)
    /\ UNCHANGED <<codecVars, storeVars, validatorVars, mergeVars, nameVars, detectVars>>

\* Plugin.update_profile_config and Plugin.update_lsfg_config: validate_config,
\* whose exception leaves the plugin, then the handler of the service
LcPluginUpdate ==
    /\ started < MaxSteps
    /\ \E detected \in Detectable :
        \E loaded \in {get_profile_data(files, detected)} :
        \E config \in PluginConfigs :
        \E checked \in {validate_config(config)} :
        \E profile_name \in {"", "feral"} :
            IF checked.ok
            THEN \E h \in {Handle(IF profile_name = ""
                                  THEN Call("update_config", "", "", checked.config)
                                  ELSE Call("update_profile_config", profile_name, "",
                                            checked.config),
                                  loaded)} :
                    /\ files' = persisted_files(files, h)
                    /\ modes' = persisted_modes(modes, h)
                    /\ outcome' = [Outcome(IF profile_name = "" THEN "update_config"
                                           ELSE "update_profile_config",
                                           profile_name, "", h.response.success,
                                           h.response.error) EXCEPT
                                        !.plugin = TRUE, !.supplied = DOMAIN config]
                    /\ started' = started + 1
                    /\ UNCHANGED <<call, faults>>
            ELSE /\ outcome' = [Outcome(IF profile_name = "" THEN "update_config"
                                        ELSE "update_profile_config",
                                        profile_name, "", FALSE, checked.raised) EXCEPT
                                    !.plugin = TRUE, !.supplied = DOMAIN config]
                 /\ started' = started + 1
                 /\ UNCHANGED <<files, modes, call, faults>>
    /\ UNCHANGED <<codecVars, storeVars, validatorVars, mergeVars, nameVars, detectVars>>

\* ConfigurationService.get_profiles
LcGetProfiles ==
    /\ started < MaxSteps
    /\ \E detected \in Detectable :
        \E listed \in {get_profiles(files, detected)} :
            outcome' = [Outcome("get_profiles", "", "", TRUE, "") EXCEPT
                            !.profiles = listed.profiles,
                            !.current_profile = listed.current_profile]
    /\ started' = started + 1
    /\ UNCHANGED <<files, modes, call, faults, codecVars, storeVars, validatorVars, mergeVars,
                   nameVars, detectVars>>

\* InstallationService.install: without the archive nothing is written
LcInstall ==
    /\ started < MaxSteps
    /\ \E zip_found \in BOOLEAN :
       \E detected \in IF zip_found THEN DetectedDlls ELSE {""} :
       \E os_error \in IF zip_found /\ exists(files, ConfigPath) THEN BOOLEAN ELSE {FALSE} :
        IF zip_found
        THEN /\ files' = installed_files(files, detected, os_error)
             /\ modes' = installed_modes(modes)
             /\ outcome' = [Outcome("install", "", "", TRUE, "") EXCEPT
                                !.read_error = os_error /\ exists(files, ConfigPath)]
        ELSE /\ outcome' = Outcome("install", "", "", FALSE,
                                   "lsfg-vk_archlinux.zip not found")
             /\ UNCHANGED <<files, modes>>
    /\ started' = started + 1
    /\ UNCHANGED <<call, faults, codecVars, storeVars, validatorVars, mergeVars, nameVars,
                   detectVars>>

\* InstallationService.uninstall: an OSError of a removal is answered with an
\* error response whose removed_files is None
LcUninstall ==
    /\ started < MaxSteps
    /\ \E failing \in RemovalFailures(files) :
        \E done \in {uninstall(files, failing)} :
            /\ files' = done.files
            /\ modes' = uninstall(modes, failing).files
            /\ outcome' = IF done.raised
                          THEN Outcome("uninstall", "", "", FALSE, os_error_text(failing))
                          ELSE [Outcome("uninstall", "", "", TRUE, "") EXCEPT
                                    !.removed_files = done.removed_files]
    /\ started' = started + 1
    /\ UNCHANGED <<call, faults, codecVars, storeVars, validatorVars, mergeVars, nameVars,
                   detectVars>>

\* InstallationService.cleanup_on_uninstall, which answers nothing
LcCleanup ==
    /\ started < MaxSteps
    /\ \E failing \in RemovalFailures(files) :
        /\ files' = cleanup_on_uninstall(files, failing)
        /\ modes' = cleanup_on_uninstall(modes, failing)
    /\ outcome' = Outcome("cleanup_on_uninstall", "", "", TRUE, "")
    /\ started' = started + 1
    /\ UNCHANGED <<call, faults, codecVars, storeVars, validatorVars, mergeVars, nameVars,
                   detectVars>>

LifecycleNext ==
    \/ LcCall
    \/ LcPluginUpdate
    \/ LcGetProfiles
    \/ LcInstall
    \/ LcUninstall
    \/ LcCleanup

SpecLifecycle == LifecycleInit /\ [][LifecycleNext]_vars

(***************************************************************************)
(* Properties of the codecs                                                *)
(***************************************************************************)
NonGlobalFields == FieldNames \ GLOBAL_SECTION_FIELDS

\* the codec input is {profiles: {N: C}, current: N}
SingleProfileInput ==
    /\ Len(profile_data.profiles.order) = 1
    /\ profile_data.current_profile = profile_data.profiles.order[1]

\* C1: TOML round-trip.  For every Config C and valid profile name N, the
\* ProfileSet parsed from the text generated for {profiles: {N: C}, current: N}
\* holds, under N, the value of C in every non-global field.
C1_TomlRoundTrip ==
    (parsed_data # <<>> /\ SingleProfileInput) =>
        LET N == profile_data.current_profile
            C == profile_data.profiles.cfg[N]
            P == parsed_data[1].profiles
        IN  /\ HasProfile(P, N)
            /\ \A f \in NonGlobalFields : P.cfg[N][f] = C[f]

\* C6: serialization idempotence.  For every ProfileSet x the text generated
\* from parse(generate(x)) is the text generate(x).
C6_GenerateIdempotent ==
    toml_again # <<>> => toml_again = toml_content

\* the configuration the launch script is generated from: the current profile
\* with the global fields laid over it
ScriptSource ==
    profile_data.global_config @@ profile_data.profiles.cfg[profile_data.current_profile]

\* the script-location fields whose value differs from the schema default
NonDefaultScriptFields ==
    {f \in SCRIPT_ONLY_FIELDS : ScriptSource[f] # FieldDef(f).default}

HasDefault(pd) == HasProfile(pd.profiles, DEFAULT_PROFILE_NAME)

\* C2: default-profile invariant.  A create, delete, rename or setCurrent call,
\* returning or raising, applied to a ProfileSet that contains the reserved
\* default profile leaves a ProfileSet that contains it, and in every reachable
\* state delete(default) fails.
C2_DefaultProfileKept ==
    /\ [][HasDefault(ps) => HasDefault(ps')]_vars
    /\ [](~delete_profile(ps, DEFAULT_PROFILE_NAME).ok)

\* C2 witness: delete(default) was called on a ProfileSet of several profiles
\* and raised, after which the default profile is still there
C2_Witness ==
    /\ last.op = "delete" /\ last.name = DEFAULT_PROFILE_NAME /\ ~last.ok
    /\ HasDefault(ps)
    /\ Len(ps.profiles.order) >= 2

\* C3: currentProfile is a key of profiles in every ProfileSet the system
\* produces: the output of parse for every input text, the ProfileSet of a
\* missing file, and the result of every successful create, delete, rename and
\* setCurrent applied to such a ProfileSet.
C3_CurrentProfileExists ==
    HasProfile(ps.profiles, ps.current_profile)

\* C3 witness: the current profile was deleted, and the call returned
C3_Witness ==
    last.op = "delete" /\ last.ok /\ last.was_current

(***************************************************************************)
(* Properties of the service                                               *)
(***************************************************************************)
\* callers c and d have both finished a create_profile, of different names,
\* with a success response
CreatedBoth(c, d) ==
    /\ c # d
    /\ call[c].pc = "done" /\ call[d].pc = "done"
    /\ call[c].req.op = "create_profile" /\ call[d].req.op = "create_profile"
    /\ call[c].req.name # call[d].req.name
    /\ call[c].response.success /\ call[d].response.success

\* the config file holds the profiles both callers created
FileHoldsBoth(c, d) ==
    /\ exists(files, ConfigPath)
    /\ \E held \in {parse_toml_content_multi_profile(files[ConfigPath]).profiles} :
            HasProfile(held, call[c].req.name) /\ HasProfile(held, call[d].req.name)

\* C4: lost-update hazard.  No lock spans load -> mutate -> persist, so two
\* overlapping mutating calls can both return success while the config file
\* reflects one of them (the witness); the loss is one of overlap only: when
\* no replace of the config file fell between a caller's load and its own
\* replace, the file holds what both created.
C4_LostUpdateNeedsOverlap ==
    \A c, d \in Callers :
        (CreatedBoth(c, d) /\ ~call[c].overlapped /\ ~call[d].overlapped)
            => FileHoldsBoth(c, d)

\* both creates returned success and the file lacks one of the profiles
C4_Witness ==
    \E c, d \in Callers : CreatedBoth(c, d) /\ ~FileHoldsBoth(c, d)

\* the paths the service writes
Targets == {ConfigPath, ScriptPath}

C8_WriteThenRead ==
    \A c \in Callers :
        (/\ call[c].pc = "done"
         /\ call[c].req.op = "get_config"
         /\ ~call[c].read_error
         /\ faults = 0
         /\ call[c].before.req.op = "update_config"
         /\ call[c].before.success)
        => /\ call[c].response.success
           /\ call[c].response.config # NoConfig
           /\ \A f \in FieldNames :
                call[c].response.config[1][f] = call[c].before.req.config[f]

\* the mutating operations
MutatingOps ==
    {"update_profile_config", "create_profile", "delete_profile", "rename_profile",
     "set_current_profile", "update_dll_path"}

\* C9: write failures propagate.  A mutating operation in which the write of
\* the config file or of the launch script failed returns an error result
\* that carries a message.
C9_WriteFailuresPropagate ==
    \A c \in Callers :
        (call[c].pc = "done" /\ call[c].req.op \in MutatingOps /\ call[c].failed # "")
            => (~call[c].response.success /\ call[c].response.error # "")

\* a value of the type the schema gives the field
HasFieldType(value, fieldType) ==
    IF fieldType = "boolean" THEN value \in BOOLEAN
    ELSE IF fieldType = "string" THEN value \in STRING
    ELSE value \in Int

\* every field of the schema has a value of its type
FullyPopulated(config) ==
    \A f \in FieldNames :
        f \in DOMAIN config /\ HasFieldType(config[f], FieldDef(f).fieldType)

Convertible(fieldType, value) ==
    IF fieldType = "integer" THEN py_int(value).ok
    ELSE IF fieldType = "float" THEN py_float(value).ok
    ELSE TRUE

\* C11: validate is total and permissive - for every input mapping it returns
\* (it does not raise) a Config that holds every schema field and no other
\* key, with the schema default in every field that the mapping does not
\* hold or whose value cannot be converted to the field's type.
C11_ValidatorTotal ==
    validated # <<>> =>
        /\ validated[1].ok
        /\ DOMAIN validated[1].config = FieldNames
        /\ \A f \in FieldNames :
                (f \notin DOMAIN raw_config
                    \/ ~Convertible(CONFIG_SCHEMA(f).fieldType, raw_config[f]))
                => validated[1].config[f] = CONFIG_SCHEMA(f).default

\* C12: for every input text the ProfileSet that parse returns has a
\* non-empty profiles map that holds the reserved default profile name, also
\* when [global] names another profile of the text as current_profile.
C12_ParsedHasDefault ==
    parsed_data # <<>> =>
        /\ parsed_data[1].profiles.order # <<>>
        /\ HasProfile(parsed_data[1].profiles, DEFAULT_PROFILE_NAME)

\* the config Scenario B gives the profile feral
ScenarioBConfig == [get_defaults EXCEPT !["multiplier"] = 3, !["flow_scale"] = 12]

ScenarioBParsed == toml_content = ScenarioBText /\ parsed_data # <<>>

\* C13 as stated: parsing the Scenario B text yields a ProfileSet whose
\* profiles map is exactly {feral}, feral holding multiplier 3, flow_scale
\* 1.2 and the defaults elsewhere, and whose global mapping is empty.
C13_ScenarioBAsStated ==
    ScenarioBParsed =>
        /\ DOMAIN parsed_data[1].profiles.cfg = {"feral"}
        /\ parsed_data[1].profiles.cfg["feral"] = ScenarioBConfig
        /\ parsed_data[1].global_config = EmptyDict

\* C13, amended: parsing the Scenario B text yields the profile feral with
\* multiplier 3, flow_scale 1.2 and the defaults elsewhere, followed by the
\* default profile at the schema defaults, which is the current profile
\* (the text names none); the global mapping is empty.
C13_ScenarioB ==
    ScenarioBParsed =>
        /\ parsed_data[1].profiles.order = <<"feral", DEFAULT_PROFILE_NAME>>
        /\ parsed_data[1].profiles.cfg["feral"] = ScenarioBConfig
        /\ parsed_data[1].profiles.cfg[DEFAULT_PROFILE_NAME] = get_defaults
        /\ parsed_data[1].current_profile = DEFAULT_PROFILE_NAME
        /\ parsed_data[1].global_config = EmptyDict

C13_Witness ==
    /\ ScenarioBParsed
    /\ parsed_data[1].profiles.cfg["feral"]["flow_scale"] = 12

\* the names of StoreNames that the rules for profile names reject: one holds
\* a space, the other is a reserved word in another case
RejectedNames == {"bad name", "Global"}

\* the profiles of p other than name, in their order
OthersInOrder(p, name) == SelectSeq(p.order, LAMBDA n : n # name)

C15_Delete ==
    [][last'.op = "delete" =>
        IF last'.name = DEFAULT_PROFILE_NAME \/ ~HasProfile(ps.profiles, last'.name)
        THEN ~last'.ok /\ ps' = ps
        ELSE /\ last'.ok
             /\ ~HasProfile(ps'.profiles, last'.name)
             /\ \A n \in (DOMAIN ps.profiles.cfg) \ {last'.name} :
                    HasProfile(ps'.profiles, n) /\ ps'.profiles.cfg[n] = ps.profiles.cfg[n]
             /\ ps'.global_config = ps.global_config
             /\ IF ps.current_profile # last'.name
                THEN /\ ps'.current_profile = ps.current_profile
                     /\ ps'.profiles.order = OthersInOrder(ps.profiles, last'.name)
                ELSE /\ ps'.current_profile = DEFAULT_PROFILE_NAME
                     /\ HasProfile(ps'.profiles, DEFAULT_PROFILE_NAME)
                     /\ IF HasProfile(ps.profiles, DEFAULT_PROFILE_NAME)
                        THEN ps'.profiles.order = OthersInOrder(ps.profiles, last'.name)
                        ELSE /\ ps'.profiles.cfg[DEFAULT_PROFILE_NAME] = get_defaults
                             /\ ps'.profiles.order =
                                    Append(OthersInOrder(ps.profiles, last'.name),
                                           DEFAULT_PROFILE_NAME)]_vars

\* Scenario D with the default profile absent: the current profile was
\* deleted and the default profile was added in its place
C15_Witness ==
    /\ last.op = "delete" /\ last.ok /\ last.was_current /\ last.name = "feral"
    /\ ps.current_profile = DEFAULT_PROFILE_NAME
    /\ ps.profiles.order = <<DEFAULT_PROFILE_NAME>>
    /\ ps.profiles.cfg[DEFAULT_PROFILE_NAME] = get_defaults
    /\ ps.global_config = EmptyDict

\* C16: rename(ps, old, new) fails when old is the reserved default, old is
\* no key of profiles, or new is invalid or already a key; otherwise new
\* holds old's config at old's position in the profile order, every other
\* profile keeps its config and its place, old is no key any more, and
\* currentProfile becomes new exactly when it was old.
C16_Rename ==
    [][last'.op = "rename" =>
        IF \/ last'.name = DEFAULT_PROFILE_NAME
           \/ ~HasProfile(ps.profiles, last'.name)
           \/ last'.other \in RejectedNames
           \/ HasProfile(ps.profiles, last'.other)
        THEN ~last'.ok /\ ps' = ps
        ELSE /\ last'.ok
             /\ Len(ps'.profiles.order) = Len(ps.profiles.order)
             /\ \A i \in 1..Len(ps.profiles.order) :
                    IF ps.profiles.order[i] = last'.name
                    THEN /\ ps'.profiles.order[i] = last'.other
                         /\ ps'.profiles.cfg[last'.other] = ps.profiles.cfg[last'.name]
                    ELSE /\ ps'.profiles.order[i] = ps.profiles.order[i]
                         /\ ps'.profiles.cfg[ps.profiles.order[i]]
                                = ps.profiles.cfg[ps.profiles.order[i]]
             /\ ~HasProfile(ps'.profiles, last'.name)
             /\ DOMAIN ps'.profiles.cfg =
                    ((DOMAIN ps.profiles.cfg) \ {last'.name}) \cup {last'.other}
             /\ ps'.current_profile =
                    (IF ps.current_profile = last'.name THEN last'.other
                     ELSE ps.current_profile)
             /\ ps'.global_config = ps.global_config]_vars

\* the first of two profiles was renamed and is still the first; it was the
\* current profile and current_profile followed it
C16_Witness ==
    /\ last.op = "rename" /\ last.ok /\ last.was_current
    /\ last.name = "feral" /\ last.other = "game2"
    /\ ps.profiles.order = <<"game2", DEFAULT_PROFILE_NAME>>
    /\ ps.current_profile = "game2"
    /\ ps.profiles.cfg["game2"] # get_defaults

\* the config of profile name, the schema defaults when name is no key
ProfileOrDefaults(pd, name) ==
    IF name \in DOMAIN pd.profiles.cfg THEN pd.profiles.cfg[name] ELSE get_defaults

\* the two effective configurations of the merge run
Merged == {merged_config[1].toml, merged_config[1].script}

\* C17 as stated: the effective configuration holds profiles[name] (the
\* defaults when name is absent) in every non-global field, and what it
\* holds in dll and no_fp16 is the value of ps.global, never the profile's
\* own copy.
C17_MergeAsStated ==
    merged_config # <<>> =>
        \A e \in Merged :
            /\ \A f \in NonGlobalFields :
                    e[f] = ProfileOrDefaults(profile_data, profile_data.current_profile)[f]
            /\ \A g \in GLOBAL_SECTION_FIELDS \cap DOMAIN e :
                    /\ g \in DOMAIN profile_data.global_config
                    /\ e[g] = profile_data.global_config[g]

\* C17, amended: the effective configuration holds profiles[name] (the
\* defaults when name is absent) in every non-global field; a global field
\* that ps.global holds has the value of ps.global, and a global field that
\* ps.global does not hold is as in the profile's own config: dll has the
\* profile's value and no_fp16, which no profile holds, is absent.
C17_Merge ==
    merged_config # <<>> =>
        \A e \in Merged :
            With(ProfileOrDefaults(profile_data, profile_data.current_profile), LAMBDA own :
                /\ \A f \in NonGlobalFields : e[f] = own[f]
                /\ \A g \in GLOBAL_SECTION_FIELDS :
                        IF g \in DOMAIN profile_data.global_config
                        THEN g \in DOMAIN e /\ e[g] = profile_data.global_config[g]
                        ELSE IF g \in DOMAIN own THEN g \in DOMAIN e /\ e[g] = own[g]
                        ELSE g \notin DOMAIN e)

\* a global dll was laid over a profile that holds another dll
C17_Witness ==
    /\ merged_config # <<>>
    /\ "dll" \in DOMAIN profile_data.global_config
    /\ HasProfile(profile_data.profiles, profile_data.current_profile)
    /\ profile_data.profiles.cfg[profile_data.current_profile]["dll"]
            # profile_data.global_config["dll"]
    /\ merged_config[1].toml["dll"] = profile_data.global_config["dll"]

\* what the table says of a script line
LineMeaning(line) ==
    ScriptLineTable[CHOOSE i \in 1..Len(ScriptLineTable) : ScriptLineTable[i].line = line]

\* the lines of the launch script that set field f
ExportsOf(script, f) == {i \in 1..Len(script) : LineMeaning(script[i]).field = f}

\* the value the last of these lines gives
ExportedValue(script, f) ==
    With(CHOOSE i \in ExportsOf(script, f) : \A j \in ExportsOf(script, f) : j <= i,
         LAMBDA i : IF LineMeaning(script[i]).value.kind = "int"
                    THEN LineMeaning(script[i]).value.n
                    ELSE LineMeaning(script[i]).value.b)

\* get_config has answered caller 1
ConfigRead ==
    /\ call[1].pc = "done"
    /\ call[1].req.op = "get_config"
    /\ call[1].response.success
    /\ call[1].response.config # NoConfig

\* C18: in the configuration that get_config returns, a script-location
\* field with an uncommented export line in the launch script has the value
\* parsed from that line, a script-location field without such a line has
\* the TOML-derived value, and every other field has the TOML-derived value
\* whatever the script holds.
C18_ScriptPrecedence ==
    ConfigRead =>
        \E detected \in Detectable :
            With(toml_config_of(files, detected), LAMBDA toml :
            With(file_content(files, ScriptPath), LAMBDA script :
                /\ DOMAIN call[1].response.config[1] = DOMAIN toml
                /\ \A f \in DOMAIN toml :
                        call[1].response.config[1][f] =
                            IF f \in SCRIPT_ONLY_FIELDS /\ ExportsOf(script, f) # {}
                            THEN ExportedValue(script, f)
                            ELSE toml[f]))

\* Scenario C over a TOML value that differs from the default: the script
\* exports DXVK_FRAME_RATE=45 and holds PROTON_USE_WOW64 commented out; the
\* frame rate comes from the script and enable_wow64 from the config file
C18_Witness ==
    /\ ConfigRead
    /\ exists(files, ConfigPath)
    /\ file_content(files, ScriptPath)
            = <<"export DXVK_FRAME_RATE=45", "# export PROTON_USE_WOW64=1">>
    /\ call[1].response.config[1]["dxvk_frame_rate"] = 45
    /\ call[1].response.config[1]["enable_wow64"] = TRUE
    /\ call[1].response.config[1]["multiplier"] = 3

\* caller c is in update_profile_config for a profile that is / is not the
\* current profile of the ProfileSet the handler loaded
UpdatesProfile(c, current) ==
    /\ call[c].req.op = "update_profile_config"
    /\ call[c].pc \in WriteSteps \cup {"done"}
    /\ HasProfile(call[c].pd.profiles, call[c].req.name)
    /\ (call[c].req.name = call[c].pd.current_profile) = current

\* C19: updateProfileConfig(name, cfg) rewrites the launch script if and only
\* if name is the current profile - after a successful update of the current
\* profile the launch script is the script generated from that profile's
\* new config merged with the global fields, and no step of an update of
\* another profile changes the launch script.
C19_ScriptRewrittenIffCurrent ==
    /\ [](\A c \in Callers :
            (UpdatesProfile(c, TRUE) /\ call[c].pc = "done" /\ call[c].response.success)
                => /\ call[c].pd.profiles.cfg[call[c].req.name] = call[c].req.config
                   /\ file_content(files, ScriptPath)
                        = generate_script_content_for_profile(call[c].pd))
    /\ [][\A c \in Callers :
            UpdatesProfile(c, FALSE)
                => file_content(files', ScriptPath) = file_content(files, ScriptPath)]_vars

\* the text holds the line
HasLine(text, line) == \E i \in 1..Len(text) : text[i] = line

\* the shape of a launch script of the profile for the configuration
ScriptShape(script, profile_name, config) ==
    /\ Len(script) >= 2
    /\ script[1] = "#!/bin/bash"
    /\ HasLine(script, "export PROTON_USE_WOW64=1") <=> config["enable_wow64"]
    /\ HasLine(script, "export SteamDeck=0") <=> config["disable_steamdeck_mode"]
    /\ \E k \in 1..Len(script) :
            /\ strip(script[k]) = "export LSFG_PROCESS=" \o profile_name
            /\ \A i \in 1..Len(script) : startswith(script[i], "export ") => i < k
    /\ script[Len(script) - 1] = "exec \"$@\""
    /\ script[Len(script)] = ""

\* C20: for every configuration and profile name the generated launch script
\* starts with the shebang line, holds the line export PROTON_USE_WOW64=1
\* exactly when enable_wow64 is true and the line export SteamDeck=0 exactly
\* when disable_steamdeck_mode is true, holds an export of LSFG_PROCESS set
\* to the profile name after every schema-driven export, and ends with the
\* line exec "$@" (and the newline that closes it); the script of the
\* installer has the same shape for the default profile.
C20_ScriptShape ==
    script_content # <<>> =>
        With(profile_data.profiles.cfg[profile_data.current_profile], LAMBDA config :
            /\ ScriptShape(script_content, profile_data.current_profile, config)
            /\ ScriptShape(generate_script_content(config), DEFAULT_PROFILE_NAME, config))

\* a script of the profile feral with the WOW64 export and no SteamDeck export
C20_Witness ==
    /\ script_content # <<>>
    /\ profile_data.current_profile = "feral"
    /\ profile_data.profiles.cfg["feral"]["enable_wow64"]
    /\ HasLine(script_content, "export PROTON_USE_WOW64=1")
    /\ ~HasLine(script_content, "export SteamDeck=0")
    /\ HasLine(script_content, "    export LSFG_PROCESS=feral")

\* the characters the claim lists, the backquote apart
ListedUnsafeChars ==
    {" ", "\t", "\n", "\r", "'", "\"", "\\", "/", "$", "|", "&", ";", "(", ")", "<", ">",
     "{", "}", "[", "]", "*", "?"}

\* the two characters are the same letter in either case, or the same character
SameCharIgnoringCase(a, b) ==
    \/ a = b
    \/ \E i \in 1..Len(UpperChars) :
            {a, b} = {CharAt(UpperChars, i), CharAt(LowerChars, i)}

EqualIgnoringCase(s, t) ==
    /\ Len(s) = Len(t)
    /\ \A i \in 1..Len(s) : SameCharIgnoringCase(CharAt(s, i), CharAt(t, i))

Candidates(env) ==
    (IF env_value_given(getenv(env, ENV_LSFG_DLL_PATH))
     THEN <<[path |-> path_str(strip(env.vars[ENV_LSFG_DLL_PATH])),
             source |-> "LSFG_DLL_PATH environment variable"]>>
     ELSE <<>>)
    \o (IF env_value_given(getenv(env, ENV_XDG_DATA_HOME))
        THEN <<[path |-> dll_in(xdg_steam_path(env.vars[ENV_XDG_DATA_HOME])),
                source |-> "XDG_DATA_HOME Steam directory"]>>
        ELSE <<>>)
    \o (IF env_value_given(getenv(env, ENV_HOME))
        THEN <<[path |-> dll_in(home_steam_path(env.vars[ENV_HOME])),
                source |-> "HOME/.local/share Steam directory"]>>
        ELSE <<>>)
    \o With(get_steam_library_paths(env).paths, LAMBDA libraries :
            [i \in 1..Len(libraries) |->
                [path |-> dll_in(libraries[i]),
                 source |-> "Steam library folder: " \o libraries[i]]])

\* the response names the first candidate that exists, or none
FirstExistingReturned(env, response) ==
    With(Candidates(env), LAMBDA candidates :
    With({i \in 1..Len(candidates) : path_status(env, candidates[i].path) = "present"},
         LAMBDA existing :
        IF existing = {}
        THEN /\ ~response.detected
             /\ response.path = PyNone
             /\ response.source = PyNone
             /\ response.error = PyNone
        ELSE With(CHOOSE i \in existing : \A j \in existing : i <= j, LAMBDA first :
                /\ response.detected
                /\ response.path = PyStr(candidates[first].path)
                /\ response.source = PyStr(candidates[first].source))))

NothingRaises(env) ==
    \A p \in DOMAIN env.paths : env.paths[p] \notin {"raises", "unreadable"}

SameProfiles(before, after) ==
    /\ after.profiles.order = before.profiles.order
    /\ \A n \in DOMAIN before.profiles.cfg : \A f \in NonGlobalFields :
            after.profiles.cfg[n][f] = before.profiles.cfg[n][f]
    /\ after.current_profile = before.current_profile

\* the step is a successful install over an existing config file
InstallsOverConfig ==
    /\ outcome'.op = "install"
    /\ outcome'.success
    /\ exists(files, ConfigPath)

\* C23: an install over an existing config file that it could read leaves the
\* profile names and their order, every non-global field value of every
\* profile and the current profile as they were.
C23_InstallPreservesProfiles ==
    [][(InstallsOverConfig /\ ~outcome'.read_error)
        => SameProfiles(parse_toml_content_multi_profile(files[ConfigPath]),
                        parse_toml_content_multi_profile(files'[ConfigPath]))]_vars

\* an install has rewritten a config file that holds the profile feral as the
\* current one
C23_Witness ==
    /\ outcome.op = "install"
    /\ outcome.success
    /\ ~outcome.read_error
    /\ exists(files, ConfigPath)
    /\ With(parse_toml_content_multi_profile(files[ConfigPath]), LAMBDA pd :
            /\ pd.current_profile = "feral"
            /\ pd.profiles.order = <<DEFAULT_PROFILE_NAME, "feral">>
            /\ pd.profiles.cfg["feral"]["frame_pacing_target_ms"] = 16
            /\ pd.global_config["dll"] = "/run/media/Lossless.dll")

\* the paths of the library, the layer JSON and the launch script
InstalledPaths == {LibPath, JsonPath, LaunchScriptPath}

SeqSet(q) == {q[i] : i \in 1..Len(q)}

\* the config file is what it was, or as missing as it was
ConfigFileUntouched ==
    /\ exists(files', ConfigPath) = exists(files, ConfigPath)
    /\ exists(files, ConfigPath)
        => files'[ConfigPath] = files[ConfigPath] /\ modes'[ConfigPath] = modes[ConfigPath]

\* C24: a successful uninstall removes the library, the layer JSON and the
\* launch script where they exist and reports exactly the paths it removed,
\* an empty (null) list with success when none existed; neither uninstall nor
\* cleanup_on_uninstall, failed removals included, removes or changes the
\* config file, and an install that reads the config file afterwards keeps
\* every profile name the file holds.
C24_UninstallKeepsConfig ==
    [][/\ outcome'.op \in {"uninstall", "cleanup_on_uninstall"} => ConfigFileUntouched
       /\ (outcome'.op = "uninstall" /\ outcome'.success)
            => /\ \A q \in InstalledPaths : ~exists(files', q)
               /\ SeqSet(outcome'.removed_files) = {q \in InstalledPaths : exists(files, q)}
               /\ Len(outcome'.removed_files) = Cardinality(SeqSet(outcome'.removed_files))
               /\ DOMAIN files' = (DOMAIN files) \ InstalledPaths
       /\ (InstallsOverConfig /\ ~outcome'.read_error)
            => \A n \in DOMAIN parse_toml_content_multi_profile(files[ConfigPath]).profiles.cfg :
                    n \in DOMAIN parse_toml_content_multi_profile(files'[ConfigPath]).profiles.cfg
      ]_vars

\* an uninstall has removed the three files of an installed system whose
\* config file holds the profile feral
C24_Witness ==
    /\ outcome.op = "uninstall"
    /\ outcome.success
    /\ outcome.removed_files = <<LibPath, JsonPath, LaunchScriptPath>>
    /\ DOMAIN files = {ConfigPath}
    /\ "feral" \in DOMAIN parse_toml_content_multi_profile(files[ConfigPath]).profiles.cfg

\* the lines of a launch script that export LSFG_PROCESS, the one of the
\* override syntax apart
DefaultProcessExports(script) ==
    {strip(script[k]) : k \in {i \in 1..Len(script) :
        /\ startswith(strip(script[i]), "export LSFG_PROCESS=")
        /\ strip(script[i]) # "export LSFG_PROCESS=\"$OVERRIDE_PROCESS\""}}

\* the launch script, where it and the config file exist, exports the
\* current profile of the config file as the default LSFG_PROCESS
ScriptNamesCurrentProfile(fs) ==
    (exists(fs, ScriptPath) /\ exists(fs, ConfigPath))
        => DefaultProcessExports(fs[ScriptPath])
            = {"export LSFG_PROCESS="
                \o parse_toml_content_multi_profile(fs[ConfigPath]).current_profile}

\* C25: with every write succeeding, after any sequence of install and
\* profile operations the profile name the launch script exports as the
\* default LSFG_PROCESS is the current_profile of the config file.
C25_ScriptNamesCurrentProfile == ScriptNamesCurrentProfile(files)

\* every operation but install keeps the launch script and the config file
\* consistent
C25_HandlersKeepConsistency ==
    [][(outcome'.op # "install" /\ ScriptNamesCurrentProfile(files))
        => ScriptNamesCurrentProfile(files')]_vars

\* the profile names a handler finds when it loads the config file
LoadedNames(fs) == DOMAIN get_profile_data(fs, "").profiles.cfg

\* the step answers a call the claim lists as rejected: name and other are
\* the arguments of the call, the profile names are those of the files before
RejectedCall ==
    /\ outcome'.op \in {"create_profile", "delete_profile", "rename_profile",
                        "set_current_profile", "update_profile_config"}
    /\ With(LoadedNames(files), LAMBDA names :
        \/ /\ outcome'.op = "create_profile"
           /\ ~validate_profile_name(outcome'.name) \/ outcome'.name \in names
        \/ /\ outcome'.op = "delete_profile"
           /\ outcome'.name = DEFAULT_PROFILE_NAME \/ outcome'.name \notin names
        \/ /\ outcome'.op = "rename_profile"
           /\ \/ outcome'.name = DEFAULT_PROFILE_NAME
              \/ outcome'.name \notin names
              \/ ~validate_profile_name(outcome'.other)
              \/ outcome'.other \in names
        \/ /\ outcome'.op = "set_current_profile"
           /\ outcome'.name \notin names
        \/ /\ outcome'.op = "update_profile_config"
           /\ outcome'.name \notin names)

\* C26: a create with an invalid or existing name, a delete of the default or
\* of a missing profile, a rename whose old name is the default or missing or
\* whose new name is invalid or existing, a switch to a missing profile and
\* an update of a missing profile each answer with an error and leave the
\* config file and the launch script as they were, a missing file missing.
C26_RejectedChangesNothing ==
    [][RejectedCall
        => /\ ~outcome'.success
           /\ outcome'.error # ""
           /\ files' = files
           /\ modes' = modes]_vars

\* a switch to the profile feral was rejected on a system without a config
\* file, which is still missing
C26_Witness ==
    /\ outcome.op = "set_current_profile"
    /\ outcome.name = "feral"
    /\ ~outcome.success
    /\ outcome.error = "Profile 'feral' does not exist"
    /\ ~exists(files, ConfigPath)

\* the dll of the [global] section of the config file
GlobalDllOf(fs) ==
    dict_get(parse_toml_content_multi_profile(fs[ConfigPath]).global_config, "dll", "")

\* C28: an update through Plugin.update_profile_config or
\* Plugin.update_lsfg_config whose mapping holds no dll leaves the dll of
\* the [global] section of the config file as it was.
C28_GlobalDllKept ==
    [][(/\ outcome'.plugin
        /\ "dll" \notin outcome'.supplied
        /\ outcome'.success
        /\ exists(files, ConfigPath))
        => GlobalDllOf(files') = GlobalDllOf(files)]_vars

\* the step is one in which _atomic_write raises
AtomicWriteRaises == faults' = faults + 1

\* C29: when _atomic_write raises at any step, the target holds the text it
\* held before the write, or is absent as before, and no temporary file is
\* left beside it.
C29_FailedWriteIsClean ==
    [][AtomicWriteRaises
        => \A c \in Callers :
                call[c].pc \in WriteSteps
                    => /\ file_content(files', call[c].target) = call[c].previous
                       /\ (DOMAIN files') \ Targets = {}]_vars

\* the target is as it was after every failed write, the temporary file apart
C29_FailedWriteKeepsTarget ==
    [][AtomicWriteRaises
        => \A c \in Callers :
                call[c].pc \in WriteSteps
                    => file_content(files', call[c].target) = call[c].previous]_vars

\* line i of the text is a section header
HeaderAt(text, i) ==
    startswith(strip(text[i]), "[") /\ endswith(strip(text[i]), "]")

\* the header of the block line i lies in, 0 before the first header
BlockStart(text, i) ==
    With({h \in 1..i : HeaderAt(text, h)}, LAMBDA headers :
        IF headers = {} THEN 0 ELSE CHOOSE h \in headers : \A g \in headers : g <= h)

\* line i of the text is a key = value line for the key
AssignsAt(text, i, key) ==
    With(strip(text[i]), LAMBDA line :
        /\ line # ""
        /\ ~startswith(line, "#")
        /\ ~HeaderAt(text, i)
        /\ find(line, "=") > 0
        /\ strip(split1(line, "=").key) = key)

\* the value line i assigns
ValueAt(text, i) == unquote(strip(split1(strip(text[i]), "=").value))

\* lines i and j lie in the same [[game]] block
SameGameBlock(text, i, j) ==
    /\ BlockStart(text, i) > 0
    /\ BlockStart(text, i) = BlockStart(text, j)
    /\ strip(text[BlockStart(text, i)]) = "[[game]]"

\* the value the profile holds for the field differs from the default only
\* where the block that carries the profile's exe assigns the field, and
\* every profile but the default one is named by an exe line of a block
BlocksIsolated(text, parsed) ==
    \A n \in DOMAIN parsed.profiles.cfg :
        /\ n # DEFAULT_PROFILE_NAME
            => \E j \in 1..Len(text) :
                    /\ AssignsAt(text, j, "exe")
                    /\ ValueAt(text, j) = n
                    /\ SameGameBlock(text, j, j)
        /\ \A f \in FieldNames :
            parsed.profiles.cfg[n][f] # get_defaults[f]
                => \E i, j \in 1..Len(text) :
                        /\ AssignsAt(text, i, f)
                        /\ AssignsAt(text, j, "exe")
                        /\ ValueAt(text, j) = n
                        /\ SameGameBlock(text, i, j)

\* C27: in the ProfileSet parse returns, a profile's non-default values come
\* only from the key = value lines of the [[game]] block that carries its
\* exe; a block without an exe line stores no profile, and what it buffered
\* appears in no profile of a later block.
C27_BlocksIsolated ==
    parsed_data # <<>> => BlocksIsolated(toml_content, parsed_data[1])

\* every [[game]] block of the text carries an exe line
EveryGameBlockNamed(text) ==
    \A h \in 1..Len(text) :
        strip(text[h]) = "[[game]]"
            => \E j \in 1..Len(text) :
                    /\ AssignsAt(text, j, "exe")
                    /\ ValueAt(text, j) # ""
                    /\ BlockStart(text, j) = h

\* the blocks of a text whose [[game]] blocks all carry an exe are isolated
C27_NamedBlocksIsolated ==
    (parsed_data # <<>> /\ EveryGameBlockNamed(toml_content))
        => BlocksIsolated(toml_content, parsed_data[1])

\* what the config file holds: its profile names in their order and its
\* current profile, those of the defaults while the file is missing
Persisted(fs) ==
    IF exists(fs, ConfigPath)
    THEN With(parse_toml_content_multi_profile(fs[ConfigPath]), LAMBDA pd :
            [names |-> pd.profiles.order, current |-> pd.current_profile])
    ELSE [names |-> <<DEFAULT_PROFILE_NAME>>, current |-> DEFAULT_PROFILE_NAME]

\* the step is a successful call of the handler
Succeeds(op) == outcome'.op = op /\ outcome'.success

\* the step is any but an install that could not read the config file and
\* wrote it anew
ReadableStep == ~(outcome'.op = "install" /\ outcome'.read_error)

\* the step has changed the config file
ConfigFileRewritten == file_content(files', ConfigPath) # file_content(files, ConfigPath)

\* the calls whose answer the claim speaks of; any other call that leaves the
\* config file as it was changes nothing of what the file holds
ReportingCalls == {"get_profiles", "create_profile", "delete_profile", "set_current_profile"}

\* C30: with every write succeeding and one operation at a time, getProfiles
\* reports what the config file holds; a successful create of n makes n
\* listed, and a listed n stays listed until a successful delete or rename
\* of n; a successful delete of n makes n unlisted, and an unlisted n stays
\* unlisted until a successful create of n (or rename to n); a successful
\* switch to n makes n current, and n stays current until a successful
\* switch, or a rename or delete of n.
C30_ProfileVisibility ==
    [][(ReadableStep /\ (ConfigFileRewritten \/ outcome'.op \in ReportingCalls)) =>
        With(Persisted(files), LAMBDA before :
        With(IF ConfigFileRewritten THEN Persisted(files') ELSE before, LAMBDA after :
            /\ outcome'.op = "get_profiles"
                => /\ outcome'.profiles = before.names
                   /\ outcome'.current_profile = before.current
            /\ Succeeds("create_profile") => outcome'.name \in SeqSet(after.names)
            /\ Succeeds("delete_profile") => outcome'.name \notin SeqSet(after.names)
            /\ Succeeds("set_current_profile") => after.current = outcome'.name
            /\ \A n \in SeqSet(before.names) \ SeqSet(after.names) :
                    /\ outcome'.name = n
                    /\ Succeeds("delete_profile") \/ Succeeds("rename_profile")
            /\ \A n \in SeqSet(after.names) \ SeqSet(before.names) :
                    \/ Succeeds("create_profile") /\ outcome'.name = n
                    \/ Succeeds("rename_profile") /\ outcome'.other = n
            /\ after.current # before.current
                => \/ Succeeds("set_current_profile")
                   \/ /\ outcome'.name = before.current
                      /\ Succeeds("delete_profile") \/ Succeeds("rename_profile")))
       ]_vars

\* getProfiles lists the profile feral, created on a system that had no config
\* file, behind the default profile
C30_Witness ==
    /\ outcome.op = "get_profiles"
    /\ outcome.profiles = <<DEFAULT_PROFILE_NAME, "feral">>
    /\ outcome.current_profile = DEFAULT_PROFILE_NAME
    /\ DOMAIN files = {ConfigPath}

====
